---- MODULE Spec2Model ----
(***************************************************************************)
(* A model of salt-lsp's SLS parser (salt_lsp/parser.py) and of the AST    *)
(* node classes it builds (salt_lsp/types.py).                             *)
(*                                                                         *)
(* The AST lives in a heap, `nodes`: a sequence of records, a node being   *)
(* known by its index.  Python compares the dataclass nodes structurally   *)
(* (==, !=, list.remove), which NodeEq reproduces.  The tokenizer          *)
(* (yaml.scan) is the environment: it turns the lines of a document into   *)
(* position-stamped tokens, one line at a time, or raises a ScannerError.  *)
(***************************************************************************)
EXTENDS Integers, Sequences, FiniteSets, TLC

\* The number of lines of the documents explored.
MaxLines == 4
\* The number of lines that precede the line the tokenizer fails on.
MaxErrLines == 4
\* The number of lines of the documents explored for the requisite keywords.
MaxReqLines == 4
\* The number of lines of the documents explored for the flow collections.
MaxFlowLines == 5
\* The number of lines of the documents whose tree is queried for a position.
MaxQueryLines == 3
\* The number of calls of the position query on one tree.
MaxCalls == 2
\* The largest line and column of the positions compared.
MaxCoord == 2
\* The length of the values of include items.
MaxValueLen == 3
\* The states of a tree of the workspace, at most.
MaxStates == 2
\* The includes of the starting document, at most.
MaxIncludes == 2

VARIABLES
    nodes,                \* the heap of AST nodes; nodes[1] is Parser._tree
    breadcrumbs,          \* Parser._breadcrumbs, innermost last
    block_starts,         \* Parser._block_starts: (token, node) pairs
    next_scalar_as_key,   \* Parser._next_scalar_as_key
    next_token_is_value,  \* Parser._next_token_is_value
    unprocessed_tokens,   \* Parser._unprocessed_tokens: [on, toks]; on = FALSE is None
    col_adjustment,       \* Parser._col_adjustment
    pc,                   \* where parse() is: "scan", "recover", "done", "raised"
    exc,                  \* the exception that left parse(), "" when none
    err,                  \* the ScannerError caught by parse()
    ridx,                 \* position of the reversed(breadcrumbs) iterator in recovery
    pending,              \* tokens scanned and not yet given to _process_token
    indents,              \* the tokenizer's indentation stack
    line,                 \* the number of the next line of the document
    lastEnd,              \* the position right after the last token scanned
    lastShape,            \* the shape of the last line scanned
    held,                 \* "held": the last pending scalar is a possible simple key
    doc,                  \* the lines scanned so far: [shape, col, key, val]
    eof,                  \* the tokenizer has reached the end of the stream
    query,                \* the calls of the position query on the returned tree
    cmp,                  \* three positions and the outcome of their comparisons
    gf,                   \* an IncludeNode.get_file call: its inputs and its result
    find                  \* a find_id_in_doc_and_includes call: its inputs and its result

pvars == <<nodes, breadcrumbs, block_starts, next_scalar_as_key,
           next_token_is_value, unprocessed_tokens, col_adjustment>>
evars == <<pending, indents, line, lastEnd, lastShape, held, doc, eof>>
uvars == <<query, cmp, gf, find>>
vars == <<nodes, breadcrumbs, block_starts, next_scalar_as_key,
          next_token_is_value, unprocessed_tokens, col_adjustment,
          pc, exc, err, ridx,
          pending, indents, line, lastEnd, lastShape, held, doc, eof,
          query, cmp, gf, find>>

----------------------------------------------------------------------------
(* Positions and the node classes                                          *)

None == "None"
Pos(l, c) == [line |-> l, col |-> c]
NoPos == [line |-> -1, col |-> -1]

\* An order that compares the columns whatever the lines are.
PosLt_any_line(a, b) == a.line < b.line \/ a.col < b.col

\* Position.__lt__
PosLt(a, b) == a.line < b.line \/ (a.line = b.line /\ a.col < b.col)
\* Position.__le__
PosLe(a, b) == PosLt(a, b) \/ a = b
\* Position.__gt__
PosGt(a, b) == a.line > b.line \/ (a.line = b.line /\ a.col > b.col)
\* Position.__ge__
PosGe(a, b) == PosGt(a, b) \/ a = b

\* The classes deriving from AstMapNode.
AstMapKinds == {"Tree", "Extend", "State", "StateCall", "Requisites"}
\* The classes that define set_key.
SetKeyKinds == {"State", "StateCall", "StateParameter", "Requisites", "Requisite"}

requisites_keys == {"require", "onchanges", "watch", "listen", "prereq", "onfail", "use"}
\* The requisite keywords without their _in forms.
requisites_without_in ==
    requisites_keys
    \cup {"require_any", "onchanges_any", "watch_any", "listen_any",
          "prereq_any", "onfail_any", "use_any"}

all_requisites_keys ==
    requisites_keys
    \cup {"require_any", "onchanges_any", "watch_any", "listen_any",
          "prereq_any", "onfail_any", "use_any"}
    \cup {"require_in", "onchanges_in", "watch_in", "listen_in",
          "prereq_in", "onfail_in", "use_in"}

\* A freshly constructed node of class k with the given parent.
NewNode(k, par) ==
    [kind |-> k, start |-> NoPos, end |-> NoPos, parent |-> par,
     name |-> None, value |-> None, vlist |-> <<>>, vkind |-> "none",
     kids |-> <<>>, reqs |-> <<>>, includes |-> 0, extend |-> 0]

\* TokenNode.__init__: the wrapper of one unprocessed token.
NewTokenNode(tok) ==
    [NewNode("Token", 0) EXCEPT !.start = tok.start, !.end = tok.end,
                                !.name = tok.type, !.value = tok.value]

Last(s) == s[Len(s)]
Front(s) == SubSeq(s, 1, Len(s) - 1)

\* The dataclass-generated __eq__ (TokenNode.__eq__ for token wrappers): same
\* class and equal fields, `parent` left out, lists compared element by element.
RECURSIVE NodeEq(_, _, _)
NodeEq(h, a, b) ==
    \/ a = b
    \/ /\ a # 0 /\ b # 0
       /\ h[a].kind = h[b].kind
       /\ h[a].start = h[b].start
       /\ h[a].end = h[b].end
       /\ h[a].name = h[b].name
       /\ h[a].value = h[b].value
       /\ h[a].vkind = h[b].vkind
       /\ Len(h[a].kids) = Len(h[b].kids)
       /\ Len(h[a].reqs) = Len(h[b].reqs)
       /\ Len(h[a].vlist) = Len(h[b].vlist)
       /\ (h[a].includes = 0) = (h[b].includes = 0)
       /\ (h[a].extend = 0) = (h[b].extend = 0)
       /\ \A i \in 1..Len(h[a].kids) : NodeEq(h, h[a].kids[i], h[b].kids[i])
       /\ \A i \in 1..Len(h[a].reqs) : NodeEq(h, h[a].reqs[i], h[b].reqs[i])
       /\ \A i \in 1..Len(h[a].vlist) : NodeEq(h, h[a].vlist[i], h[b].vlist[i])
       /\ NodeEq(h, h[a].includes, h[b].includes)
       /\ NodeEq(h, h[a].extend, h[b].extend)

\* list.remove(x): the list without its first element equal to x.
RECURSIVE ListRemove(_, _, _)
ListRemove(h, s, x) ==
    IF s = <<>> THEN <<>>
    ELSE IF NodeEq(h, s[1], x) THEN Tail(s)
    ELSE <<s[1]>> \o ListRemove(h, Tail(s), x)

----------------------------------------------------------------------------
(* The parser's state as one record, for the helpers of _process_token     *)

PState ==
    [nodes |-> nodes, bc |-> breadcrumbs, bs |-> block_starts,
     nsk |-> next_scalar_as_key, ntv |-> next_token_is_value,
     unp |-> unprocessed_tokens, adj |-> col_adjustment, exc |-> ""]

\* <Class>.get_children: the children a mapping-like node reports.
get_children(h, n) ==
    CASE h[n].kind = "Tree" ->
            (IF h[n].includes # 0 THEN <<h[n].includes>> ELSE <<>>)
            \o (IF h[n].extend # 0 THEN <<h[n].extend>> ELSE <<>>)
            \o h[n].kids
      [] h[n].kind = "StateCall" -> h[n].kids \o h[n].reqs
      [] OTHER -> h[n].kids

\* Parser._is_last_breadcrumb
is_last_breadcrumb(p, kinds) ==
    IF Len(p.bc) = 0 THEN FALSE ELSE p.nodes[Last(p.bc)].kind \in kinds

StartTypes == {"BlockMappingStart", "BlockSequenceStart",
               "FlowSequenceStart", "FlowMappingStart"}
EndTypes == {"BlockEnd", "FlowSequenceEnd", "FlowMappingEnd"}

\* Parser._process_token_star_start
process_token_star_start(p, tok) ==
    LET register ==
            /\ Len(p.bc) > 0
            /\ \/ Len(p.bs) = 0
               \/ ~NodeEq(p.nodes, Last(p.bs).node, Last(p.bc))
    IN  [p EXCEPT !.bs = IF register
                         THEN Append(@, [type |-> tok.type, node |-> Last(p.bc)])
                         ELSE @,
                  !.ntv = FALSE]

\* _process_unprocessed_tokens that collects every token, the block end that
\* closes the parameter included.
process_unprocessed_tokens_all(p, tok) ==
    LET id == Len(p.nodes) + 1
        p1 == [p EXCEPT !.nodes = Append(@, NewTokenNode(tok)),
                        !.unp.toks = Append(@, id)]
    IN  IF tok.type \in StartTypes
        THEN [p1 EXCEPT !.bc = Append(@, id),
                        !.bs = Append(@, [type |-> tok.type, node |-> id]),
                        !.ntv = FALSE]
        ELSE p1

\* Parser._process_unprocessed_tokens
process_unprocessed_tokens(p, tok) ==
    LET collect == ~is_last_breadcrumb(p, {"StateParameter"}) \/ tok.type # "BlockEnd"
        id == Len(p.nodes) + 1
        p1 == IF collect
              THEN [p EXCEPT !.nodes = Append(@, NewTokenNode(tok)),
                             !.unp.toks = Append(@, id)]
              ELSE p
    IN  IF tok.type \in StartTypes
        THEN [p1 EXCEPT !.bc = Append(@, id),
                        !.bs = Append(@, [type |-> tok.type, node |-> id]),
                        !.ntv = FALSE]
        ELSE p1

\* The loop of _process_star_end that pops breadcrumbs until the popped node
\* equals the node the block start was registered against.
RECURSIVE pop_until(_, _, _, _, _)
pop_until(h, bc, closed, target, token_end) ==
    IF Len(bc) > 0 /\ ~NodeEq(h, closed, target)
    THEN pop_until([h EXCEPT ![closed].end = token_end],
                   Front(bc), Last(bc), target, token_end)
    ELSE [nodes |-> h, bc |-> bc, last |-> closed]

\* The end of _process_star_end: the verbatim buffer becomes the value of the
\* closed parameter.
flush_unprocessed(h, last, toks) ==
    IF Len(toks) = 1 /\ h[toks[1]].name = "Scalar"
    THEN [h EXCEPT ![last].value = h[toks[1]].value, ![last].vkind = "str",
                   ![last].vlist = <<>>]
    ELSE [i \in 1..Len(h) |->
            IF i = last
            THEN [h[i] EXCEPT !.value = None, !.vkind = "list", !.vlist = toks]
            ELSE IF \E j \in 1..Len(toks) : toks[j] = i
                 THEN [h[i] EXCEPT !.parent = last]
                 ELSE h[i]]

\* _process_star_end that leaves col_adjustment as it is when a call is closed.
process_star_end_keeping_adjustment(p, tok) ==
    IF Len(p.bs) = 0 \/ Len(p.bc) = 0
    THEN p
    ELSE LET last_start == Last(p.bs)
             r == pop_until(p.nodes, Front(p.bc), Last(p.bc), last_start.node, tok.end)
             last == r.last
             h1 == IF r.nodes[last].kind # "Token"
                   THEN [r.nodes EXCEPT ![last].end = tok.end]
                   ELSE r.nodes
             flush == h1[last].kind = "StateParameter" /\ p.unp.on
         IN  [p EXCEPT !.nodes = IF flush THEN flush_unprocessed(h1, last, p.unp.toks) ELSE h1,
                       !.bc = r.bc,
                       !.bs = Front(p.bs),
                       !.unp = IF flush THEN [on |-> FALSE, toks |-> <<>>] ELSE @]

\* _process_star_end that empties both stacks when one of them is empty.
process_star_end_clearing(p, tok) ==
    IF Len(p.bs) = 0 \/ Len(p.bc) = 0
    THEN [p EXCEPT !.bc = <<>>, !.bs = <<>>]
    ELSE LET last_start == Last(p.bs)
             r == pop_until(p.nodes, Front(p.bc), Last(p.bc), last_start.node, tok.end)
             last == r.last
             h1 == IF r.nodes[last].kind # "Token"
                   THEN [r.nodes EXCEPT ![last].end = tok.end]
                   ELSE r.nodes
             flush == h1[last].kind = "StateParameter" /\ p.unp.on
         IN  [p EXCEPT !.nodes = IF flush THEN flush_unprocessed(h1, last, p.unp.toks) ELSE h1,
                       !.bc = r.bc,
                       !.bs = Front(p.bs),
                       !.adj = IF h1[last].kind = "StateCall" /\ p.adj > 0 THEN 0 ELSE @,
                       !.unp = IF flush THEN [on |-> FALSE, toks |-> <<>>] ELSE @]

\* Parser._process_star_end
process_star_end(p, tok) ==
    IF Len(p.bs) = 0 \/ Len(p.bc) = 0
    THEN p
    ELSE LET last_start == Last(p.bs)
             r == pop_until(p.nodes, Front(p.bc), Last(p.bc), last_start.node, tok.end)
             last == r.last
             h1 == IF r.nodes[last].kind # "Token"
                   THEN [r.nodes EXCEPT ![last].end = tok.end]
                   ELSE r.nodes
             flush == h1[last].kind = "StateParameter" /\ p.unp.on
         IN  [p EXCEPT !.nodes = IF flush THEN flush_unprocessed(h1, last, p.unp.toks) ELSE h1,
                       !.bc = r.bc,
                       !.bs = Front(p.bs),
                       !.adj = IF h1[last].kind = "StateCall" /\ p.adj > 0 THEN 0 ELSE @,
                       !.unp = IF flush THEN [on |-> FALSE, toks |-> <<>>] ELSE @]

\* The class of the node that add() of a node of class k creates.
ChildKind(k) ==
    CASE k = "StateCall" -> "StateParameter"
      [] k = "Includes" -> "Include"
      [] k = "Requisites" -> "Requisite"
      [] k = "State" -> "StateCall"
      [] OTHER -> "State"

\* The parent given to the node that add() creates: IncludesNode.add passes none.
ChildParent(k, n) == IF k = "Includes" THEN 0 ELSE n

\* <Class>.add: the heap with a new child appended to node n; the child is the
\* last node of the heap.
add(h, n) ==
    Append([h EXCEPT ![n].kids = Append(@, Len(h) + 1)],
           NewNode(ChildKind(h[n].kind), ChildParent(h[n].kind, n)))

\* current.add() followed by the push on the breadcrumbs and the stamp of start.
push_added(p, token_start) ==
    LET id == Len(p.nodes) + 1
        h == add(p.nodes, Last(p.bc))
    IN  [p EXCEPT !.nodes = [h EXCEPT ![id].start = token_start],
                  !.bc = Append(@, id)]

\* Tree.convert
Tree_convert(h, t, state, name) ==
    LET id == Len(h) + 1
        h1 == [h EXCEPT ![t].kids = ListRemove(h, @, state)]
    IN  IF name = "include"
        THEN [nodes |-> Append([h1 EXCEPT ![t].includes = id],
                               [NewNode("Includes", t) EXCEPT !.start = h[state].start]),
              changed |-> id]
        ELSE IF name = "extend"
        THEN [nodes |-> Append([h1 EXCEPT ![t].extend = id],
                               [NewNode("Extend", t) EXCEPT !.start = h[state].start]),
              changed |-> id]
        ELSE [nodes |-> h1, changed |-> t]

\* StateCallNode.convert that leaves the parameter in the parameters.
StateCall_convert_keeping(h, c, param, name) ==
    LET id == Len(h) + 1
        h1 == [h EXCEPT ![c].reqs = Append(@, id)]
    IN  [nodes |-> Append(h1, [NewNode("Requisites", c) EXCEPT
                                  !.name = name, !.start = h[param].start]),
         changed |-> id]

\* StateCallNode.convert
StateCall_convert(h, c, param, name) ==
    LET id == Len(h) + 1
        h1 == [h EXCEPT ![c].kids = ListRemove(h, @, param),
                        ![c].reqs = Append(@, id)]
    IN  [nodes |-> Append(h1, [NewNode("Requisites", c) EXCEPT
                                  !.name = name, !.start = h[param].start]),
         changed |-> id]

\* StateNode.set_key
StateNode_set_key(h, n, key) ==
    IF key \in {"include", "extend"} /\ h[n].parent # 0 /\ h[h[n].parent].kind = "Tree"
    THEN Tree_convert(h, h[n].parent, n, key)
    ELSE [nodes |-> [h EXCEPT ![n].name = key], changed |-> n]

\* StateParameterNode.set_key
StateParameterNode_set_key(h, n, key) ==
    IF key \in all_requisites_keys /\ h[n].parent # 0
       /\ h[h[n].parent].kind = "StateCall"
    THEN StateCall_convert(h, h[n].parent, n, key)
    ELSE [nodes |-> [h EXCEPT ![n].name = key], changed |-> n]

\* set_key of the node's class: [nodes, changed], changed being the node returned.
set_key(h, n, key) ==
    CASE h[n].kind = "State" -> StateNode_set_key(h, n, key)
      [] h[n].kind = "StateParameter" -> StateParameterNode_set_key(h, n, key)
      [] OTHER -> [nodes |-> [h EXCEPT ![n].name = key], changed |-> n]

\* Parser._process_token_blockEntry
process_token_blockEntry(p, tok) ==
    LET top == Last(p.bc)
        same_level ==
            /\ Len(p.bc) > 0
            /\ p.nodes[top].start # NoPos
            /\ p.nodes[top].start.col = tok.start.col + p.adj
        p1 == IF ~same_level THEN p
              ELSE IF p.nodes[top].kind = "StateCall"
              THEN [p EXCEPT !.adj = p.nodes[top].start.col,
                             !.bs = Append(@, [type |-> "BlockMappingStart", node |-> top])]
              ELSE [p EXCEPT !.bc = Front(@), !.nodes[top].end = tok.start]
    IN  IF is_last_breadcrumb(p1, {"StateCall", "Includes", "Requisites"})
        THEN push_added(p1, tok.start)
        ELSE p1

\* The KeyToken branch of _process_token.
process_token_key(p, tok) ==
    LET p1 == [p EXCEPT !.nsk = TRUE]
    IN  IF is_last_breadcrumb(p1, AstMapKinds)
        THEN push_added(p1, tok.start)
        ELSE p1

\* scalar_as_key that leaves block_starts as it is after a conversion.
scalar_as_key_stale_starts(p, tok) ==
    IF Len(p.bc) = 0
    THEN [p EXCEPT !.exc = "IndexError"]
    ELSE IF p.nodes[Last(p.bc)].kind \notin SetKeyKinds
    THEN [p EXCEPT !.exc = "AttributeError"]
    ELSE LET old == Last(p.bc)
             r == set_key(p.nodes, old, tok.value)
             converted == ~NodeEq(r.nodes, r.changed, old)
         IN  [p EXCEPT !.nodes = r.nodes,
                       !.bc = IF converted THEN Append(Front(p.bc), r.changed) ELSE p.bc,
                       !.nsk = FALSE,
                       !.ntv = FALSE]

\* _process_token_scalar, the branch taken when the scalar is a key.
scalar_as_key(p, tok) ==
    IF Len(p.bc) = 0
    THEN [p EXCEPT !.exc = "IndexError"]
    ELSE IF p.nodes[Last(p.bc)].kind \notin SetKeyKinds
    THEN [p EXCEPT !.exc = "AttributeError"]
    ELSE LET old == Last(p.bc)
             r == set_key(p.nodes, old, tok.value)
             converted == ~NodeEq(r.nodes, r.changed, old)
         IN  [p EXCEPT !.nodes = r.nodes,
                       !.bc = IF converted THEN Append(Front(p.bc), r.changed) ELSE p.bc,
                       !.bs = IF converted
                              THEN [i \in 1..Len(p.bs) |->
                                      IF NodeEq(r.nodes, p.bs[i].node, old)
                                      THEN [type |-> p.bs[i].type, node |-> r.changed]
                                      ELSE p.bs[i]]
                              ELSE p.bs,
                       !.nsk = FALSE,
                       !.ntv = FALSE]

\* scalar_new_node that leaves the breadcrumbs as they are.
scalar_new_node_no_pop(p, tok) ==
    LET cur == Last(p.bc)
        id == Len(p.nodes) + 1
        h0 == add(p.nodes, cur)
        h1 == [h0 EXCEPT ![id].start = tok.start, ![id].end = tok.end]
        r == set_key(h1, id, tok.value)
    IN  [p EXCEPT !.nodes = r.nodes]

\* _process_token_scalar, the new child of a StateNode or of the Tree.
scalar_new_node(p, tok) ==
    LET cur == Last(p.bc)
        id == Len(p.nodes) + 1
        h0 == add(p.nodes, cur)
        h1 == [h0 EXCEPT ![id].start = tok.start, ![id].end = tok.end]
        r == set_key(h1, id, tok.value)
        h2 == IF p.ntv /\ r.nodes[cur].end = NoPos
              THEN [r.nodes EXCEPT ![cur].end = tok.end]
              ELSE r.nodes
    IN  [p EXCEPT !.nodes = h2, !.bc = IF p.ntv THEN Front(p.bc) ELSE p.bc]

\* _process_token_scalar, the branch taken when the scalar is a value.
scalar_as_value(p, tok) ==
    LET p1 == IF is_last_breadcrumb(p, {"Include"})
              THEN [p EXCEPT !.nodes[Last(p.bc)].value = tok.value,
                             !.nodes[Last(p.bc)].end = tok.end,
                             !.bc = Front(@)]
              ELSE p
        p2 == IF is_last_breadcrumb(p1, {"Requisite"})
              THEN [p1 EXCEPT !.nodes[Last(p1.bc)].value = tok.value]
              ELSE p1
        p3 == IF is_last_breadcrumb(p2, {"StateParameter"})
                 /\ p2.nodes[Last(p2.bc)].name = None
              THEN [p2 EXCEPT !.nodes[Last(p2.bc)].name = tok.value]
              ELSE p2
        p4 == IF is_last_breadcrumb(p3, {"State", "Tree"})
              THEN scalar_new_node(p3, tok)
              ELSE p3
    IN  IF Len(p2.bc) = 0
        THEN [p2 EXCEPT !.exc = "IndexError"]
        ELSE [p4 EXCEPT !.ntv = FALSE]

\* Parser._process_token_scalar
process_token_scalar(p, tok) ==
    IF p.nsk THEN scalar_as_key(p, tok) ELSE scalar_as_value(p, tok)

\* process_token_stream without the stamp of the stream's end.
process_token_stream_no_end(p, tok) ==
    IF tok.type = "StreamStart" THEN [p EXCEPT !.nodes[1].start = tok.start]
    ELSE p

\* The head of _process_token: the stream's two ends stamp the root.
process_token_stream(p, tok) ==
    IF tok.type = "StreamStart" THEN [p EXCEPT !.nodes[1].start = tok.start]
    ELSE IF tok.type = "StreamEnd" THEN [p EXCEPT !.nodes[1].end = tok.end]
    ELSE p

\* _process_token that leaves next_token_is_value as it is when the buffer is
\* still active.
process_token_keeping_flag(p, tok) ==
    LET p0 == process_token_stream(p, tok)
        p1 == IF tok.type \in StartTypes THEN process_token_star_start(p0, tok) ELSE p0
        p2 == IF tok.type = "Value" THEN [p1 EXCEPT !.ntv = TRUE] ELSE p1
        start_buffer ==
            /\ tok.type = "Value"
            /\ is_last_breadcrumb(p2, {"StateParameter"})
            /\ (~p2.unp.on \/ p2.unp.toks = <<>>)
        p3 == IF p2.unp.on THEN process_unprocessed_tokens(p2, tok) ELSE p2
        p4 == IF tok.type \in EndTypes THEN process_star_end(p3, tok) ELSE p3
    IN  IF start_buffer THEN [p2 EXCEPT !.unp = [on |-> TRUE, toks |-> <<>>]]
        ELSE IF p4.unp.on THEN p4
        ELSE IF tok.type = "Key" THEN process_token_key(p4, tok)
        ELSE IF tok.type = "BlockEntry" THEN process_token_blockEntry(p4, tok)
        ELSE IF tok.type = "Scalar" THEN process_token_scalar(p4, tok)
        ELSE p4

\* Parser._process_token
process_token(p, tok) ==
    LET p0 == process_token_stream(p, tok)
        p1 == IF tok.type \in StartTypes THEN process_token_star_start(p0, tok) ELSE p0
        p2 == IF tok.type = "Value" THEN [p1 EXCEPT !.ntv = TRUE] ELSE p1
        start_buffer ==
            /\ tok.type = "Value"
            /\ is_last_breadcrumb(p2, {"StateParameter"})
            /\ (~p2.unp.on \/ p2.unp.toks = <<>>)
        p3 == IF p2.unp.on THEN process_unprocessed_tokens(p2, tok) ELSE p2
        p4 == IF tok.type \in EndTypes THEN process_star_end(p3, tok) ELSE p3
    IN  IF start_buffer THEN [p2 EXCEPT !.unp = [on |-> TRUE, toks |-> <<>>]]
        ELSE IF p4.unp.on THEN [p4 EXCEPT !.ntv = FALSE]
        ELSE IF tok.type = "Key" THEN process_token_key(p4, tok)
        ELSE IF tok.type = "BlockEntry" THEN process_token_blockEntry(p4, tok)
        ELSE IF tok.type = "Scalar" THEN process_token_scalar(p4, tok)
        ELSE p4

----------------------------------------------------------------------------
(* The tokenizer, yaml.scan, as parse() consumes it                        *)

Tok(t, s, e, v) == [type |-> t, start |-> s, end |-> e, value |-> v]
\* A token that spans no text: block starts and ends, keys, the stream's ends.
Mark(t, l, c) == Tok(t, Pos(l, c), Pos(l, c), None)

\* The indentation stack after the scanner's unwind_indent(c).
RECURSIVE Unwound(_, _)
Unwound(ind, c) ==
    IF ind # <<>> /\ Last(ind) > c THEN Unwound(Front(ind), c) ELSE ind

\* The current indentation level: -1 outside every block.
Indent(ind) == IF ind = <<>> THEN -1 ELSE Last(ind)

\* n BlockEnd tokens at position (l, c).
BlockEnds(n, l, c) == [i \in 1..n |-> Mark("BlockEnd", l, c)]

\* The shapes of a line: K "k:", KV "k: v", KF "k: []", KM "k: {}",
\* EKV "- k: v", EK "- k:", EV "- v", E "-", V "v".
KeyShapes == {"K", "KV", "KF", "KM"}
EntryShapes == {"EKV", "EK", "EV", "E"}
\* The shapes that leave a block open for a deeper line.
OpenShapes == {"K", "EK", "E"}
\* The shapes that end with a plain scalar that may still become a key.
HeldShapes == {"EV", "V"}

\* The tokens of "k:", "k: v", "k: []" or "k: {}" whose key starts at (l, c);
\* opens is whether the key opens a block mapping.
KeyTokens(shape, key, val, l, c, opens) ==
    (IF opens THEN <<Mark("BlockMappingStart", l, c)>> ELSE <<>>)
    \o <<Mark("Key", l, c),
         Tok("Scalar", Pos(l, c), Pos(l, c + 1), key),
         Tok("Value", Pos(l, c + 1), Pos(l, c + 2), None)>>
    \o (CASE shape \in {"KV", "EKV"} ->
                <<Tok("Scalar", Pos(l, c + 3), Pos(l, c + 4), val)>>
          [] shape = "KF" ->
                <<Tok("FlowSequenceStart", Pos(l, c + 3), Pos(l, c + 4), None),
                  Tok("FlowSequenceEnd", Pos(l, c + 4), Pos(l, c + 5), None)>>
          [] shape = "KM" ->
                <<Tok("FlowMappingStart", Pos(l, c + 3), Pos(l, c + 4), None),
                  Tok("FlowMappingEnd", Pos(l, c + 4), Pos(l, c + 5), None)>>
          [] OTHER -> <<>>)

\* What the scanner produces for the line d = [shape, col, key, val], numbered
\* l, under the indentation stack ind: the tokens and the new stack.
ScanOneLine(d, ind, l) ==
    LET c == d.col
        ind1 == Unwound(ind, c)
        ends == BlockEnds(Len(ind) - Len(ind1), l, c)
        opens == c > Indent(ind1)
        ind2 == IF opens THEN Append(ind1, c) ELSE ind1
    IN  IF d.shape \in KeyShapes
        THEN [toks |-> ends \o KeyTokens(d.shape, d.key, d.val, l, c, opens),
              ind |-> ind2]
        ELSE IF d.shape \in EntryShapes
        THEN [toks |-> ends
                       \o (IF opens THEN <<Mark("BlockSequenceStart", l, c)>> ELSE <<>>)
                       \o <<Tok("BlockEntry", Pos(l, c), Pos(l, c + 1), None)>>
                       \o (CASE d.shape \in {"EKV", "EK"} ->
                                    KeyTokens(d.shape, d.key, d.val, l, c + 2, TRUE)
                             [] d.shape = "EV" ->
                                    <<Tok("Scalar", Pos(l, c + 2), Pos(l, c + 3), d.val)>>
                             [] OTHER -> <<>>),
              ind |-> IF d.shape \in {"EKV", "EK"} THEN Append(ind2, c + 2) ELSE ind2]
        ELSE [toks |-> ends \o <<Tok("Scalar", Pos(l, c), Pos(l, c + 1), d.val)>>,
              ind |-> ind1]

\* The shapes that end with a plain scalar: a line that follows and stands
\* deeper than the enclosing block continues that scalar.
ScalarEndShapes == {"KV", "EKV", "EV", "V"}

\* The columns at which the next line may start: a level of the indentation
\* stack, or two columns deeper than the innermost when the last line left a
\* block open; column 0 for the first line.
NextCols(ind, shape) ==
    IF ind = <<>> THEN (IF shape = "start" THEN {0} ELSE {})
    ELSE {ind[i] : i \in 1..Len(ind)}
         \cup (IF shape \in OpenShapes THEN {Last(ind) + 2} ELSE {})

\* A kind of line: its shape, its key and value, and where it may stand
\* ("top": at column 0 only, "in": at any other column, "any").
Kind(shape, key, val, at) == [shape |-> shape, key |-> key, val |-> val, at |-> at]

\* The lines of state files: state ids, state calls, parameters, requisites,
\* the include list, the extend block, and lines left unfinished.
WideMenu ==
    {Kind("K", "a", None, "top"), Kind("K", "include", None, "top"),
     Kind("K", "extend", None, "top"),
     Kind("KV", "a", "v", "top"),
     Kind("K", "f", None, "in"), Kind("KF", "f", None, "in"),
     Kind("EKV", "n", "v", "any"), Kind("EK", "require", None, "any"),
     Kind("EV", None, "v", "any"), Kind("E", None, None, "any"),
     Kind("V", None, "v", "any")}

\* The 21 requisite keywords of Salt, as documents spell them.
RequisiteWords ==
    {"require", "require_any", "require_in", "onchanges", "onchanges_any",
     "onchanges_in", "watch", "watch_any", "watch_in", "listen", "listen_any",
     "listen_in", "prereq", "prereq_any", "prereq_in", "onfail", "onfail_any",
     "onfail_in", "use", "use_any", "use_in"}

\* The requisite keywords the next line may use: any of them, the one the
\* document uses once it uses one.
ReqKeys ==
    LET used == {doc[i].key : i \in 1..Len(doc)} \cap RequisiteWords
    IN  IF used = {} THEN RequisiteWords ELSE used

\* The lines of states whose calls list parameters and requisites of one
\* kind, whichever it is.
ReqMenu ==
    {Kind("K", "a", None, "top"), Kind("K", "f", None, "in"),
     Kind("EKV", "n", "v", "in"), Kind("EV", None, "v", "in")}
    \cup {Kind("EK", k, None, "in") : k \in ReqKeys}

\* The lines of states whose calls have an empty flow collection or a list of
\* parameters as value.
FlowMenu ==
    {Kind("K", "a", None, "top"), Kind("K", "f", None, "in"),
     Kind("KF", "f", None, "in"), Kind("KM", "f", None, "in"),
     Kind("EKV", "n", "v", "in")}

\* The lines the document may continue with: a kind of the menu at a column
\* the scanner accepts.  A plain scalar alone on its line stands deeper than the
\* enclosing block (at the block's own column it is a key that lacks its ':').
Lines(ind, shape, menu) ==
    {[shape |-> kc[1].shape, col |-> kc[2], key |-> kc[1].key, val |-> kc[1].val] :
        kc \in {x \in menu \X NextCols(ind, shape) :
                  /\ x[1].at = "top" => x[2] = 0
                  /\ x[1].at = "in" => x[2] > 0
                  /\ x[1].shape = "V" => x[2] > Indent(Unwound(ind, x[2]))}}

----------------------------------------------------------------------------
(* parse()                                                                 *)

\* err.on: the tokenizer raises once the tokens already scanned are consumed;
\* ctxOn = FALSE is a ScannerError whose context_mark is None; rest is whether
\* the document goes on, after problem_mark, with a state at the top level;
\* open is the breadcrumbs as they are when parse() catches the error.
NoErr == [on |-> FALSE, ctxOn |-> FALSE, ctx |-> NoPos, prob |-> NoPos, text |-> None,
          rest |-> FALSE, open |-> <<>>]

\* No call of the position query was made yet.
NoQuery == [calls |-> 0, pos |-> NoPos, first |-> None, res |-> None]
\* No comparison of positions was made.
NoCmp == [a |-> NoPos, b |-> NoPos, c |-> NoPos, done |-> FALSE, res |-> None]
\* No range, and no location: what ast_node_to_range and
\* find_id_in_doc_and_includes return as None.
NoRange == [some |-> FALSE, start |-> NoPos, end |-> NoPos]
NoLocation == [found |-> FALSE, uri |-> "", range |-> NoRange]
\* No call of find_id_in_doc_and_includes was made.
NoFind == [id |-> "", trees |-> <<>>, includes |-> <<>>, res |-> NoLocation, done |-> FALSE]
\* No call of get_file was made.
NoGetFile == [value |-> <<>>, top |-> <<>>, isdir |-> FALSE, fs |-> {}, res |-> <<>>, done |-> FALSE]

\* Parser.__init__, and the tokenizer before it has scanned anything.
InitParser ==
    /\ nodes = <<NewNode("Tree", 0)>>
    /\ breadcrumbs = <<1>>
    /\ block_starts = <<>>
    /\ next_scalar_as_key = FALSE
    /\ next_token_is_value = FALSE
    /\ unprocessed_tokens = [on |-> FALSE, toks |-> <<>>]
    /\ col_adjustment = 0
    /\ pc = "scan"
    /\ exc = ""
    /\ err = NoErr
    /\ ridx = 0
    /\ pending = <<Mark("StreamStart", 0, 0)>>
    /\ indents = <<>>
    /\ line = 0
    /\ lastEnd = Pos(0, 0)
    /\ lastShape = "start"
    /\ held = "no"
    /\ doc = <<>>
    /\ eof = FALSE

Init == InitParser /\ query = NoQuery /\ cmp = NoCmp /\ gf = NoGetFile /\ find = NoFind

\* The parser's variables after a helper returned p; an exception leaves parse().
SetParser(p) ==
    /\ nodes' = p.nodes
    /\ breadcrumbs' = p.bc
    /\ block_starts' = p.bs
    /\ next_scalar_as_key' = p.nsk
    /\ next_token_is_value' = p.ntv
    /\ unprocessed_tokens' = p.unp
    /\ col_adjustment' = p.adj
    /\ exc' = p.exc

\* The tokenizer scans one more line of the document.
ScanLine(menu, maxLines) ==
    /\ pc = "scan" /\ ~eof /\ ~err.on /\ pending = <<>> /\ line < maxLines
    /\ \E d \in Lines(indents, lastShape, menu) :
          LET r == ScanOneLine(d, indents, line)
          IN  /\ pending' = r.toks
              /\ indents' = r.ind
              /\ lastEnd' = Last(r.toks).end
              /\ lastShape' = d.shape
              /\ held' = IF d.shape \in HeldShapes THEN "held" ELSE "no"
              /\ doc' = Append(doc, d)
    /\ line' = line + 1
    /\ UNCHANGED <<uvars, pvars, pc, exc, err, ridx, eof>>

\* The tokenizer reaches the end of the document: it closes the open blocks.
EndOfStream ==
    /\ pc = "scan" /\ ~eof /\ ~err.on /\ pending = <<>>
    /\ pending' = BlockEnds(Len(indents), lastEnd.line, lastEnd.col)
                  \o <<Mark("StreamEnd", lastEnd.line, lastEnd.col)>>
    /\ indents' = <<>>
    /\ eof' = TRUE
    /\ held' = "no"
    /\ UNCHANGED <<uvars, pvars, pc, exc, err, ridx, line, lastEnd, lastShape, doc>>

\* One turn of "for token in tokens: self._process_token(token)".
ProcessToken ==
    /\ pc = "scan" /\ pending # <<>>
    /\ LET p == process_token(PState, Head(pending))
       IN  /\ SetParser(p)
           /\ pc' = IF p.exc # "" THEN "raised" ELSE pc
    /\ pending' = Tail(pending)
    /\ held' = IF held = "held" /\ Len(pending) = 1 THEN "released" ELSE held
    /\ UNCHANGED <<uvars, err, ridx, indents, line, lastEnd, lastShape, doc, eof>>

\* The token stream is exhausted: parse() returns the tree.
Finish ==
    /\ pc = "scan" /\ eof /\ pending = <<>>
    /\ pc' = "done"
    /\ UNCHANGED <<uvars, pvars, exc, err, ridx, evars>>

\* The columns at which a line the tokenizer fails on may start.
ErrorCols(ind, shape) ==
    LET cols == {0} \cup {ind[i] : i \in 1..Len(ind)} \cup {Indent(ind) + 2}
    IN  IF shape \in ScalarEndShapes THEN {c \in cols : c <= Indent(ind)} ELSE cols

\* The tokenizer fails on the next line before it delivers anything of it: a
\* quoted scalar that is never closed, or a key of a block mapping that lacks
\* its ':' and is followed by a line break (context_mark: the start of that
\* scalar), or a character no token starts with (context_mark: None).  A
\* plain scalar still held as a possible simple key is lost with the error.
ScanErrorLine(maxLines) ==
    /\ pc = "scan" /\ ~eof /\ ~err.on /\ line < maxLines
    /\ \/ held = "no" /\ pending = <<>>
       \/ held = "held" /\ Len(pending) = 1
    /\ \E c \in ErrorCols(indents, lastShape) \cup {-1}, more \in BOOLEAN :
          /\ LET withCtx == c >= 0 IN
             err' = [on |-> TRUE, ctxOn |-> withCtx,
                     ctx |-> IF withCtx THEN Pos(line, c) ELSE NoPos,
                     prob |-> Pos(line + 1, 0), text |-> "e", rest |-> more,
                     open |-> <<>>]
    /\ pending' = <<>>
    /\ line' = line + 1
    /\ held' = "no"
    /\ UNCHANGED <<uvars, pvars, pc, exc, ridx, indents, lastEnd, lastShape, doc, eof>>

\* The document ends, without a line break, on a key of a block mapping that
\* lacks its ':': the tokenizer delivers what it holds and the block ends that
\* lead to the key's column, and fails when asked for the key.
ScanErrorAtEnd(maxLines) ==
    /\ pc = "scan" /\ ~eof /\ ~err.on /\ line < maxLines
    /\ \/ pending = <<>>
       \/ held = "held" /\ Len(pending) = 1
    /\ \E i \in 1..Len(indents) :
          LET c == indents[i]
          IN  /\ err' = [on |-> TRUE, ctxOn |-> TRUE, ctx |-> Pos(line, c),
                         prob |-> Pos(line, c + 1), text |-> "e", rest |-> FALSE,
                         open |-> <<>>]
              /\ pending' = pending \o BlockEnds(Len(indents) - i, line, c)
              /\ indents' = SubSeq(indents, 1, i)
    /\ line' = line + 1
    /\ held' = "no"
    /\ UNCHANGED <<uvars, pvars, pc, exc, ridx, lastEnd, lastShape, doc, eof>>

\* "except yaml.scanner.ScannerError": the recovery loop starts at the
\* innermost breadcrumb.
CatchScannerError ==
    /\ pc = "scan" /\ err.on /\ pending = <<>>
    /\ pc' = "recover"
    /\ ridx' = Len(breadcrumbs)
    /\ err' = [err EXCEPT !.open = breadcrumbs]
    /\ UNCHANGED <<uvars, pvars, exc, evars>>

\* The body of the recovery loop that stamps context_mark on the nodes it
\* feeds no token for.
recover_node_at_context(p, n) ==
    LET block_end == Tok("BlockEnd", err.ctx, err.ctx, None)
        error_token == Tok("Scalar", err.ctx, err.prob, err.text)
        start == p.nodes[n].start
    IN  IF start # NoPos /\ err.ctxOn /\ err.ctx.col < start.col
        THEN process_token(p, block_end)
        ELSE IF start # NoPos /\ err.ctxOn /\ err.ctx.col = start.col
        THEN process_token(process_token(p, block_end), error_token)
        ELSE [p EXCEPT !.nodes[n].end = err.ctx]

\* The body of "for node in reversed(self._breadcrumbs)" for the node n.
recover_node(p, n) ==
    LET block_end == Tok("BlockEnd", err.ctx, err.ctx, None)
        error_token == Tok("Scalar", err.ctx, err.prob, err.text)
        start == p.nodes[n].start
    IN  IF start # NoPos /\ err.ctxOn /\ err.ctx.col < start.col
        THEN process_token(p, block_end)
        ELSE IF start # NoPos /\ err.ctxOn /\ err.ctx.col = start.col
        THEN process_token(process_token(p, block_end), error_token)
        ELSE [p EXCEPT !.nodes[n].end = err.prob]

\* One turn of the recovery loop.  The reversed() iterator of a list ends as
\* soon as its index is no index of the list any more.
RecoverStep ==
    /\ pc = "recover" /\ ridx >= 1 /\ ridx <= Len(breadcrumbs)
    /\ LET p == recover_node(PState, breadcrumbs[ridx])
       IN  /\ SetParser(p)
           /\ pc' = IF p.exc # "" THEN "raised" ELSE pc
    /\ ridx' = ridx - 1
    /\ UNCHANGED <<uvars, err, evars>>

\* The recovery loop is over: parse() returns the tree.
RecoverDone ==
    /\ pc = "recover" /\ ~(ridx >= 1 /\ ridx <= Len(breadcrumbs))
    /\ pc' = "done"
    /\ UNCHANGED <<uvars, pvars, exc, err, ridx, evars>>

----------------------------------------------------------------------------
(* The position query, salt_lsp/utils.py                                   *)

\* The arguments construct_path_to_position gives to parser.parse, and the
\* arguments that function requires.
ParseArgsGiven == 1
ParseArgsRequired == 2

\* The test of the visitor, "parser_pos >= node.start and parser_pos <
\* node.end": a comparison of a Position with None raises TypeError.
visitor(h, n, P) ==
    IF h[n].start = NoPos THEN "TypeError"
    ELSE IF ~PosGe(P, h[n].start) THEN "out"
    ELSE IF h[n].end = NoPos THEN "TypeError"
    ELSE IF PosLt(P, h[n].end) THEN "in" ELSE "out"

\* AstMapNode.visit and AstNode.visit with a visitor that returns True: the
\* nodes in the order the visitor is applied to them.
RECURSIVE visit(_, _), visit_each(_, _)
visit(h, n) ==
    IF h[n].kind \in AstMapKinds THEN <<n>> \o visit_each(h, get_children(h, n)) ELSE <<n>>
visit_each(h, ns) ==
    IF ns = <<>> THEN <<>> ELSE visit(h, Head(ns)) \o visit_each(h, Tail(ns))

\* tree.visit(visitor): found_node after the visitor was applied to the nodes
\* of order from the i-th on, or the exception that ended the visit.
RECURSIVE tree_visit(_, _, _, _, _)
tree_visit(h, order, i, found, P) ==
    IF i > Len(order) THEN [raised |-> "", found |-> found]
    ELSE LET r == visitor(h, order[i], P)
         IN  IF r = "TypeError" THEN [raised |-> "TypeError", found |-> found]
             ELSE tree_visit(h, order, i + 1, IF r = "in" THEN order[i] ELSE found, P)

\* The loop that walks from found_node up the parents, each put in front.
RECURSIVE path_from(_, _)
path_from(h, n) == IF n = 0 THEN <<>> ELSE Append(path_from(h, h[n].parent), n)

\* construct_path_to_position from "found_node = None" on, tree being the root.
find_path(h, P) ==
    LET r == tree_visit(h, visit(h, 1), 1, 0, P)
    IN  IF r.raised # "" THEN [raised |-> r.raised, path |-> <<>>]
        ELSE [raised |-> "", path |-> path_from(h, r.found)]

\* construct_path_to_position: parser.parse is called first, with the document
\* alone, and a call that lacks a required argument raises TypeError.
construct_path_to_position(h, P) ==
    IF ParseArgsGiven # ParseArgsRequired
    THEN [raised |-> "TypeError", path |-> <<>>]
    ELSE find_path(h, P)

\* The positions asked for: on the lines of the document and on the line after.
QueryPositions == {Pos(l, c) : l \in 0..MaxQueryLines, c \in {0, 1, 3}}

\* A feature asks for the path to a position of the parsed document; a later
\* call on the same tree asks for the same position.
Query ==
    /\ pc = "done" /\ query.calls < MaxCalls
    /\ \E P \in QueryPositions :
          /\ query.calls > 0 => P = query.pos
          /\ LET r == construct_path_to_position(nodes, P)
             IN  query' = [calls |-> query.calls + 1, pos |-> P,
                           first |-> IF query.calls = 0 THEN r ELSE query.first,
                           res |-> r]
    /\ UNCHANGED <<pvars, pc, exc, err, ridx, evars, cmp, gf, find>>

----------------------------------------------------------------------------
(* The comparison of positions, salt_lsp/types.py                          *)

ComparedPositions == {Pos(l, c) : l \in 0..MaxCoord, c \in 0..MaxCoord}

\* Three positions to compare.
InitPos ==
    /\ InitParser /\ query = NoQuery /\ gf = NoGetFile /\ find = NoFind
    /\ cmp \in {[a |-> x[1], b |-> x[2], c |-> x[3], done |-> FALSE, res |-> None] :
                  x \in ComparedPositions \X ComparedPositions \X ComparedPositions}

\* a < b, a > b, a <= b, a >= b and a == b are evaluated, and b < c and a < c.
Compare ==
    /\ ~cmp.done
    /\ cmp' = [cmp EXCEPT !.done = TRUE,
                          !.res = [lt |-> PosLt(cmp.a, cmp.b), gt |-> PosGt(cmp.a, cmp.b),
                                   le |-> PosLe(cmp.a, cmp.b), ge |-> PosGe(cmp.a, cmp.b),
                                   eq |-> cmp.a = cmp.b,
                                   lt_bc |-> PosLt(cmp.b, cmp.c),
                                   lt_ac |-> PosLt(cmp.a, cmp.c)]]
    /\ UNCHANGED <<pvars, pc, exc, err, ridx, evars, query, gf, find>>

NextPos == Compare

SpecPos == InitPos /\ [][NextPos]_vars

----------------------------------------------------------------------------
(* IncludeNode.get_file, salt_lsp/types.py                                 *)

\* Strings are sequences of characters; "init.sls" and ".sls" are written as
\* one character each.
\* str.split("."): the parts of s between its dots.
RECURSIVE split(_)
split(s) ==
    IF \A i \in 1..Len(s) : s[i] # "."
    THEN <<s>>
    ELSE LET i == CHOOSE k \in 1..Len(s) : s[k] = "." /\ \A j \in 1..(k - 1) : s[j] # "."
         IN  <<SubSeq(s, 1, i - 1)>> \o split(SubSeq(s, i + 1, Len(s)))

\* os.path.join of two paths.
join2(a, b) ==
    IF b # <<>> /\ b[1] = "/" THEN b
    ELSE IF a = <<>> \/ Last(a) = "/" THEN a \o b
    ELSE a \o <<"/">> \o b

\* os.path.join(a, *parts)
RECURSIVE join(_, _)
join(a, parts) == IF parts = <<>> THEN a ELSE join(join2(a, Head(parts)), Tail(parts))

\* The current directory of the process.
Cwd == <<"/", "w">>
\* os.path.abspath of a path without ".", ".." and doubled slashes.
abspath(path) == IF path # <<>> /\ path[1] = "/" THEN path ELSE join2(Cwd, path)

\* os.path.dirname of an absolute path without a trailing slash.
dirname(path) ==
    LET i == CHOOSE k \in 1..Len(path) :
                 path[k] = "/" /\ \A j \in (k + 1)..Len(path) : path[j] # "/"
    IN  IF i = 1 THEN <<"/">> ELSE SubSeq(path, 1, i - 1)

\* The two candidates of get_file: <dest>/init.sls and <dest>.sls under the
\* directory of the top.
init_sls_path(value, top, isdir) ==
    LET abs_top_path == abspath(top)
        top_path == IF isdir THEN abs_top_path ELSE dirname(abs_top_path)
        dest == join(Head(split(value)), Tail(split(value)))
    IN  join(top_path, <<dest, <<"init.sls">>>>)
entry_sls_path(value, top, isdir) ==
    LET abs_top_path == abspath(top)
        top_path == IF isdir THEN abs_top_path ELSE dirname(abs_top_path)
        dest == join(Head(split(value)), Tail(split(value)))
    IN  join(top_path, <<dest \o <<".sls">>>>)

\* get_file that looks for <dest>.sls first.
get_file_entry_first(value, top, isdir, fs) ==
    IF value = <<>> THEN <<>>
    ELSE IF entry_sls_path(value, top, isdir) \in fs THEN entry_sls_path(value, top, isdir)
    ELSE IF init_sls_path(value, top, isdir) \in fs THEN init_sls_path(value, top, isdir)
    ELSE <<>>

\* IncludeNode.get_file; fs is the set of the paths that exist, isdir whether
\* the top is a directory; the value None and the result None are <<>>.
get_file(value, top, isdir, fs) ==
    IF value = <<>> THEN <<>>
    ELSE IF init_sls_path(value, top, isdir) \in fs THEN init_sls_path(value, top, isdir)
    ELSE IF entry_sls_path(value, top, isdir) \in fs THEN entry_sls_path(value, top, isdir)
    ELSE <<>>

\* The values of include items: None, or dotted names of up to MaxValueLen
\* characters.
IncludeValues ==
    {<<>>} \cup UNION {[1..n -> {"a", "."}] : n \in 1..MaxValueLen}
\* The tops: a path under the root, a deeper path, a relative path.
Tops == {<<"/", "t">>, <<"/", "t", "/", "f">>, <<"t">>}

\* An include item, a top, and the files that exist.
InitFile ==
    /\ InitParser /\ query = NoQuery /\ cmp = NoCmp /\ find = NoFind
    /\ \E v \in IncludeValues, t \in Tops, d \in BOOLEAN :
          \E files \in (IF v = <<>> THEN {{}}
                         ELSE SUBSET {init_sls_path(v, t, d), entry_sls_path(v, t, d)}) :
              gf = [value |-> v, top |-> t, isdir |-> d, fs |-> files,
                    res |-> <<>>, done |-> FALSE]

GetFile ==
    /\ ~gf.done
    /\ gf' = [gf EXCEPT !.res = get_file(gf.value, gf.top, gf.isdir, gf.fs), !.done = TRUE]
    /\ UNCHANGED <<pvars, pc, exc, err, ridx, evars, query, cmp, find>>

NextFile == GetFile

SpecFile == InitFile /\ [][NextFile]_vars

----------------------------------------------------------------------------
(* The search for a state id, salt_lsp/server.py                           *)

\* The document the search starts in and the documents it may include.
StartingUri == "s"
IncludeUris == {"i1", "i2"}
Uris == {StartingUri} \cup IncludeUris

\* The identifiers of states.
FindIds == {"a", "b"}

\* Position.to_lsp_pos
to_lsp_pos(p) == [line |-> p.line, character |-> p.col]

\* utils.ast_node_to_range
ast_node_to_range(node) ==
    IF node.start = NoPos \/ node.end = NoPos
    THEN NoRange
    ELSE [some |-> TRUE, start |-> to_lsp_pos(node.start), end |-> to_lsp_pos(node.end)]

\* A state of a tree of the workspace: its identifier and its span, the end
\* None when the parser never closed the state.
FindStates ==
    {[identifier |-> i, start |-> Pos(0, 0), end |-> e] :
        i \in FindIds, e \in {NoPos, Pos(1, 0)}}

\* The entries of workspace.trees: no tree for the uri, or the states of a tree.
FindTrees ==
    {[present |-> FALSE, states |-> <<>>]}
    \cup {[present |-> TRUE, states |-> st] :
              st \in UNION {[1..n -> FindStates] : n \in 0..MaxStates}}

\* The loop over trees_and_uris_to_search of find_id_in_doc_and_includes.
RECURSIVE search(_, _, _)
search(trees, uris, id) ==
    IF uris = <<>> THEN NoLocation
    ELSE LET matching_states ==
                 SelectSeq(trees[Head(uris)].states, LAMBDA st : st.identifier = id)
         IN  IF Len(matching_states) # 1
             THEN search(trees, Tail(uris), id)
             ELSE LET lsp_range == ast_node_to_range(matching_states[1])
                  IN  IF lsp_range.some
                      THEN [found |-> TRUE, uri |-> Head(uris), range |-> lsp_range]
                      ELSE search(trees, Tail(uris), id)

\* SaltServer.find_id_in_doc_and_includes
find_id_in_doc_and_includes(trees, includes, id_to_find, starting_uri) ==
    IF ~trees[starting_uri].present
    THEN NoLocation
    ELSE search(trees,
                <<starting_uri>> \o SelectSeq(includes, LAMBDA inc : trees[inc].present),
                id_to_find)

\* A workspace: the tree of each uri, the includes of the starting document,
\* and the identifier asked for.
InitFind ==
    /\ InitParser /\ query = NoQuery /\ cmp = NoCmp /\ gf = NoGetFile
    /\ \E trees \in [Uris -> FindTrees], id \in FindIds :
          \E incs \in UNION {[1..n -> IncludeUris] : n \in 0..MaxIncludes} :
              find = [id |-> id, trees |-> trees, includes |-> incs,
                      res |-> NoLocation, done |-> FALSE]

FindId ==
    /\ ~find.done
    /\ find' = [find EXCEPT
                   !.res = find_id_in_doc_and_includes(find.trees, find.includes,
                                                       find.id, StartingUri),
                   !.done = TRUE]
    /\ UNCHANGED <<pvars, pc, exc, err, ridx, evars, query, cmp, gf>>

NextFind == FindId

SpecFind == InitFind /\ [][NextFind]_vars

Next == ScanLine(WideMenu, MaxLines) \/ EndOfStream \/ ProcessToken \/ Finish

Spec == Init /\ [][Next]_vars

\* The documents the tokenizer fails on.
NextErr ==
    \/ ScanLine(WideMenu, MaxErrLines)
    \/ ScanErrorLine(MaxErrLines + 1)
    \/ ScanErrorAtEnd(MaxErrLines + 1)
    \/ ProcessToken
    \/ CatchScannerError
    \/ RecoverStep
    \/ RecoverDone

SpecErr == Init /\ [][NextErr]_vars

\* The documents that use the requisite keywords.
NextReq == ScanLine(ReqMenu, MaxReqLines) \/ EndOfStream \/ ProcessToken \/ Finish

SpecReq == Init /\ [][NextReq]_vars

\* The documents whose state calls have flow collections as values.
NextFlow == ScanLine(FlowMenu, MaxFlowLines) \/ EndOfStream \/ ProcessToken \/ Finish

SpecFlow == Init /\ [][NextFlow]_vars

\* The documents whose tree is queried for positions.
NextQuery ==
    \/ ScanLine(WideMenu, MaxQueryLines)
    \/ EndOfStream
    \/ ProcessToken
    \/ Finish
    \/ Query

SpecQuery == Init /\ [][NextQuery]_vars

----------------------------------------------------------------------------
(* The structure of the document scanned, line by line                     *)

Max(S) == CHOOSE x \in S : \A y \in S : y <= x
Rng(s) == {s[i] : i \in 1..Len(s)}

\* The line that encloses line i: the nearest line before it that starts at a
\* smaller column or, for an item of a list, the nearest line at its column
\* that is no item (the key whose list is not indented); 0 at the top level.
Encl(i) ==
    LET js == {j \in 1..(i - 1) :
                 \/ doc[j].col < doc[i].col
                 \/ /\ doc[j].col = doc[i].col
                    /\ doc[i].shape \in EntryShapes /\ doc[j].shape \notin EntryShapes}
    IN  IF js = {} THEN 0 ELSE Max(js)

\* The document is a well-formed YAML document: the lines of one block stand
\* at one column and are all keys or all items, and a list that is not
\* indented follows a key without a value.
Sane ==
    /\ \A i, j \in 1..Len(doc) :
          Encl(i) = Encl(j) =>
              /\ doc[i].col = doc[j].col
              /\ (doc[i].shape \in EntryShapes) = (doc[j].shape \in EntryShapes)
    /\ \A i \in 1..Len(doc) :
          (Encl(i) # 0 /\ doc[Encl(i)].col = doc[i].col) => doc[Encl(i)].shape = "K"

\* Line i is a key at the top level of the document.
IsTopKey(i) == doc[i].shape \in KeyShapes /\ doc[i].col = 0
\* The document has the top-level key k.
TopKey(k) == \E i \in 1..Len(doc) : IsTopKey(i) /\ doc[i].key = k

\* Line i is a state id: a top-level key, or a key of the extend block.
IsStateId(i) ==
    /\ doc[i].shape = "K"
    /\ \/ doc[i].col = 0 /\ doc[i].key \notin {"include", "extend"}
       \/ Encl(i) # 0 /\ IsTopKey(Encl(i)) /\ doc[Encl(i)].key = "extend"
\* Line i is a state call: a key under a state id.
IsCall(i) == doc[i].shape \in KeyShapes /\ Encl(i) # 0 /\ IsStateId(Encl(i))
\* Line i is an item of the list of a state call.
IsParamItem(i) == doc[i].shape \in EntryShapes /\ Encl(i) # 0 /\ IsCall(Encl(i))

\* The nodes of class k that start where line i starts.
NodesAt(k, i) ==
    {n \in 1..Len(nodes) : nodes[n].kind = k /\ nodes[n].start = Pos(i - 1, doc[i].col)}

----------------------------------------------------------------------------
(* The claims                                                              *)

\* C1: parse() returns a tree and raises no exception, whatever tokens the
\* tokenizer delivers and whether or not it fails: no step of _process_token
\* and no step of the recovery loop raises.
C1_NoException == pc # "raised" /\ exc = ""

\* C2 (P5): when a ScannerError cuts the token stream short, parse() returns
\* a tree whose root has its end set.
C2_RootEndSet == (pc = "done" /\ err.on) => nodes[1].end # NoPos

\* C3 (P1): once a document the tokenizer accepts is parsed, the root starts
\* where the StreamStart token starts and ends where the StreamEnd token ends,
\* whatever block end closed the root before.
C3_RootSpan ==
    (pc = "done" /\ ~err.on) =>
        nodes[1].start = Pos(0, 0) /\ nodes[1].end = lastEnd

\* A parsed document of several lines whose root has left the breadcrumbs, a
\* BlockEnd having closed it before the StreamEnd.
C3_Witness ==
    /\ pc = "done" /\ ~err.on /\ Len(doc) >= 2
    /\ breadcrumbs = <<>>
    /\ nodes[1].start = Pos(0, 0) /\ nodes[1].end = lastEnd /\ lastEnd.line >= 1

\* C4 (P4): a parsed document with the top-level key include (extend) has
\* tree.includes (tree.extend) set, the singleton starting where the key
\* starts, and no StateNode of the tree is named include or extend.
C4_IncludeExtendSingleton ==
    (pc = "done" /\ Sane) =>
        /\ TopKey("include") =>
              /\ nodes[1].includes # 0
              /\ \E i \in 1..Len(doc) : nodes[1].includes \in NodesAt("Includes", i)
        /\ TopKey("extend") =>
              /\ nodes[1].extend # 0
              /\ \E i \in 1..Len(doc) : nodes[1].extend \in NodesAt("Extend", i)
        /\ \A s \in Rng(nodes[1].kids) : nodes[s].name \notin {"include", "extend"}

\* Line i is an item, keyed by a requisite keyword, of the list of a key that
\* the parser made a StateCallNode.
IsRequisiteItem(i) ==
    /\ doc[i].shape \in {"EK", "EKV"} /\ doc[i].key \in RequisiteWords
    /\ Encl(i) # 0 /\ doc[Encl(i)].shape = "K"
    /\ NodesAt("StateCall", Encl(i)) # {}

\* C5 (P3): a requisite keyword that is the key of a list item directly under
\* a state call yields a RequisitesNode of that kind in the call's requisites
\* and no StateParameterNode of that name in the call's parameters.
C5_RequisiteReclassified ==
    (pc = "done" /\ Sane) =>
        \A i \in 1..Len(doc) :
            IsRequisiteItem(i) =>
                \E c \in NodesAt("StateCall", Encl(i)) :
                    /\ \E r \in Rng(nodes[c].reqs) :
                          nodes[r].kind = "Requisites" /\ nodes[r].name = doc[i].key
                    /\ \A q \in Rng(nodes[c].kids) : nodes[q].name # doc[i].key

\* A parsed document whose state call lists a parameter and then a requisite
\* of an _in kind, which is reclassified.
C5_Witness ==
    /\ pc = "done" /\ Sane
    /\ \E i, j \in 1..Len(doc) :
          /\ IsRequisiteItem(j) /\ doc[j].key = "watch_in"
          /\ i < j /\ Encl(i) = Encl(j) /\ doc[i].shape = "EKV"
          /\ \E c \in NodesAt("StateCall", Encl(j)) :
                /\ Len(nodes[c].kids) = 1 /\ nodes[nodes[c].kids[1]].name = doc[i].key
                /\ Len(nodes[c].reqs) = 1 /\ nodes[nodes[c].reqs[1]].name = "watch_in"

\* C6 (P2): in a parsed document, consecutive children c1, c2 reported by
\* get_children of a mapping-like node satisfy c1.start <= c1.end <= c2.start
\* when these positions are set.
C6_ChildrenOrdered ==
    (pc = "done" /\ Sane) =>
        \A n \in 1..Len(nodes) :
            nodes[n].kind \in AstMapKinds =>
                LET ch == get_children(nodes, n)
                IN  \A i \in 1..(Len(ch) - 1) :
                        LET c1 == nodes[ch[i]]
                            c2 == nodes[ch[i + 1]]
                        IN  (c1.start # NoPos /\ c1.end # NoPos /\ c2.start # NoPos) =>
                                PosLe(c1.start, c1.end) /\ PosLe(c1.end, c2.start)

\* The document is the top-level key include followed by a list of scalars.
IncludeDoc ==
    /\ Len(doc) >= 2
    /\ IsTopKey(1) /\ doc[1].shape = "K" /\ doc[1].key = "include"
    /\ \A i \in 2..Len(doc) : doc[i].shape = "EV" /\ doc[i].col = doc[2].col

\* C7: for the key include followed by a list of N scalars, indented or not,
\* the parsed tree has no state and N IncludeNodes in order, each with its
\* scalar as value, starting at its block entry and ending where the scalar
\* ends; no IncludeNode stays on the breadcrumbs once its scalar is processed.
C7_IncludeList ==
    IncludeDoc =>
        /\ pc = "done" =>
              /\ nodes[1].kids = <<>>
              /\ nodes[1].includes # 0
              /\ LET inc == nodes[nodes[1].includes].kids
                 IN  /\ Len(inc) = Len(doc) - 1
                     /\ \A k \in 1..Len(inc) :
                           /\ nodes[inc[k]].kind = "Include"
                           /\ nodes[inc[k]].value = doc[k + 1].val
                           /\ nodes[inc[k]].start = Pos(k, doc[k + 1].col)
                           /\ nodes[inc[k]].end = Pos(k, doc[k + 1].col + 3)
        /\ (pc = "scan" /\ pending = <<>>) =>
              \A b \in Rng(breadcrumbs) : nodes[b].kind # "Include"

\* C8: in a parsed document every item of the list of a state call is one
\* node of that call, a StateParameterNode or the RequisitesNode it became,
\* that starts at the item's block entry; the parameters stand in document
\* order; an empty item has neither name nor value and a bare scalar is the
\* name of its item.
C8_OneParameterPerItem ==
    (pc = "done" /\ Sane) =>
        \A i \in 1..Len(doc) :
            (IsParamItem(i) /\ NodesAt("StateCall", Encl(i)) # {}) =>
                \E c \in NodesAt("StateCall", Encl(i)) :
                    LET ps == {n \in Rng(nodes[c].kids) \cup Rng(nodes[c].reqs) :
                                 nodes[n].start = Pos(i - 1, doc[i].col)}
                    IN  /\ Cardinality(ps) = 1
                        /\ \A a, b \in 1..Len(nodes[c].kids) :
                              a < b => PosLt(nodes[nodes[c].kids[a]].start,
                                             nodes[nodes[c].kids[b]].start)
                        /\ \A n \in ps :
                              /\ doc[i].shape = "E" =>
                                    /\ nodes[n].kind = "StateParameter"
                                    /\ nodes[n].name = None /\ nodes[n].vkind = "none"
                              /\ doc[i].shape = "EV" =>
                                    /\ nodes[n].kind = "StateParameter"
                                    /\ nodes[n].name = doc[i].val /\ nodes[n].vkind = "none"

\* Every token scanned so far has been processed.
Settled == pc \in {"scan", "done"} /\ pending = <<>>

\* Line i is a top-level state id whose value is a plain scalar, on its line
\* or alone on the next one.
HasScalarValue(i) ==
    /\ IsTopKey(i) /\ doc[i].key \notin {"include", "extend"}
    /\ \/ doc[i].shape = "KV"
       \/ doc[i].shape = "K" /\ i + 1 <= Len(doc) /\ doc[i + 1].shape = "V"
\* The line that value stands on, and where it starts and ends.
ValLine(i) == IF doc[i].shape = "KV" THEN i ELSE i + 1
ValStart(i) == IF doc[i].shape = "KV" THEN Pos(i - 1, 3) ELSE Pos(i, doc[i + 1].col)
ValEnd(i) == IF doc[i].shape = "KV" THEN Pos(i - 1, 4) ELSE Pos(i, doc[i + 1].col + 1)

\* The StateNode s of line i has the scalar value of that line as its only
\* call, ends where it ends and is off the breadcrumbs.
ClosedByScalar(i, s) ==
    /\ nodes[s].name = doc[i].key
    /\ Len(nodes[s].kids) = 1
    /\ LET c == nodes[nodes[s].kids[1]]
       IN  /\ c.kind = "StateCall" /\ c.name = doc[ValLine(i)].val
           /\ c.start = ValStart(i) /\ c.end = ValEnd(i)
    /\ nodes[s].end = ValEnd(i)
    /\ s \notin Rng(breadcrumbs)

\* The top-level key of line j made a child of the tree: a StateNode of
\* tree.states, or the includes or extend singleton.
TopSibling(j) ==
    \/ \E s \in NodesAt("State", j) : s \in Rng(nodes[1].kids)
    \/ NodesAt("Includes", j) # {}
    \/ NodesAt("Extend", j) # {}

IsFlowCall(i) ==
    /\ doc[i].shape \in {"KF", "KM"} /\ Encl(i) # 0
    /\ \E c \in NodesAt("StateCall", i) :
          nodes[c].parent \in NodesAt("State", Encl(i))

\* The first line after line i that is not inside its block, 0 when there is
\* none.
NextAtLevel(i) ==
    LET js == {j \in (i + 1)..Len(doc) :
                 \/ doc[j].col < doc[i].col
                 \/ doc[j].col = doc[i].col /\ doc[j].shape \notin EntryShapes}
    IN  IF js = {} THEN 0 ELSE CHOOSE j \in js : \A k \in js : j <= k

\* C10: the flow start of an empty flow collection that is the value of a
\* state call is registered against the StateCallNode; the flow end pops that
\* call, which ends where the flow end ends, and nothing else; the next key of
\* the state is a sibling call; a call with a block list that stands between
\* two such calls ends at its block end, where the next call starts.
C10_FlowValuePopsCall ==
    (pc \in {"scan", "done"} /\ Sane) =>
        \A i \in 1..Len(doc) :
            IsFlowCall(i) =>
                \E c \in NodesAt("StateCall", i) :
                    LET s == nodes[c].parent
                        g == i + 1
                        h == NextAtLevel(g)
                    IN  /\ (i = Len(doc) /\ pending # <<>>
                            /\ Head(pending).type \in {"FlowSequenceEnd", "FlowMappingEnd"}) =>
                              /\ block_starts # <<>>
                              /\ Last(block_starts).node = c
                              /\ Last(block_starts).type \in {"FlowSequenceStart",
                                                              "FlowMappingStart"}
                        /\ pending = <<>> => nodes[c].end = Pos(i - 1, doc[i].col + 5)
                        /\ (i = Len(doc) /\ pending = <<>> /\ ~eof) =>
                              breadcrumbs # <<>> /\ Last(breadcrumbs) = s
                        /\ (pending = <<>> /\ g <= Len(doc) /\ doc[g].col = doc[i].col
                            /\ doc[g].shape \in KeyShapes) =>
                              \E d \in NodesAt("StateCall", g) : d \in Rng(nodes[s].kids)
                        /\ (pending = <<>> /\ g <= Len(doc) /\ doc[g].col = doc[i].col
                            /\ doc[g].shape = "K" /\ h # 0 /\ h > g + 1
                            /\ \A j \in (g + 1)..(h - 1) :
                                  doc[j].shape \in EntryShapes /\ Encl(j) = g
                            /\ doc[h].col = doc[i].col /\ doc[h].shape \in {"KF", "KM"}) =>
                              /\ \E d \in NodesAt("StateCall", g) :
                                    nodes[d].end = Pos(h - 1, doc[h].col)
                              /\ \E d \in NodesAt("StateCall", h) : d \in Rng(nodes[s].kids)

----------------------------------------------------------------------------
(* The block and flow ends                                                 *)

\* The next step hands an end token to _process_token.
EndTokenStep == pc = "scan" /\ pending # <<>> /\ Head(pending).type \in EndTypes

\* The nodes of class k that the step closes: on the breadcrumbs before it,
\* off them after it.
ClosedNow(k) ==
    {q \in Rng(breadcrumbs) : nodes[q].kind = k /\ q \notin Rng(breadcrumbs')}

\* C11: when an end token closes a StateParameterNode while the verbatim
\* buffer is active, the parameter's value becomes the text of the buffer's
\* single scalar or else the buffered token nodes in arrival order, each with
\* the parameter as parent, and the buffer is cleared.
C11_BufferFlushedAtClose ==
    [][(EndTokenStep /\ unprocessed_tokens.on) =>
        \A q \in ClosedNow("StateParameter") :
            LET B == unprocessed_tokens.toks
            IN  /\ ~unprocessed_tokens'.on
                /\ IF Len(B) = 1 /\ nodes[B[1]].name = "Scalar"
                   THEN nodes'[q].vkind = "str" /\ nodes'[q].value = nodes[B[1]].value
                   ELSE /\ nodes'[q].vkind = "list"
                        /\ Len(nodes'[q].vlist) >= Len(B)
                        /\ SubSeq(nodes'[q].vlist, 1, Len(B)) = B
                        /\ \A t \in Rng(nodes'[q].vlist) :
                              nodes'[t].kind = "Token" /\ nodes'[t].parent = q]_vars

----------------------------------------------------------------------------
(* The recovery from a scan error                                          *)

\* The next step is the turn of the recovery loop for a StateCallNode of a
\* StateNode that starts at the column of context_mark.
RecoversCallAtContext ==
    /\ pc = "recover" /\ ridx >= 1 /\ ridx <= Len(breadcrumbs)
    /\ LET n == breadcrumbs[ridx]
       IN  /\ nodes[n].kind = "StateCall"
           /\ nodes[n].parent # 0 /\ nodes[nodes[n].parent].kind = "State"
           /\ err.ctxOn /\ nodes[n].start # NoPos /\ nodes[n].start.col = err.ctx.col

\* C12: the recovery turn for a StateCallNode of a StateNode that starts at
\* the column of context_mark ends the call at context_mark and gives the
\* StateNode a new StateCallNode named by the text between the two marks, from
\* context_mark to problem_mark.
C12_RecoveredCall ==
    [][RecoversCallAtContext =>
        LET n == breadcrumbs[ridx]
            s == nodes[n].parent
        IN  /\ pc' # "raised"
            /\ nodes'[n].end = err.ctx
            /\ \E c \in (Len(nodes) + 1)..Len(nodes') :
                  /\ c \in Rng(nodes'[s].kids)
                  /\ nodes'[c].kind = "StateCall" /\ nodes'[c].name = err.text
                  /\ nodes'[c].start = err.ctx /\ nodes'[c].end = err.prob]_vars

\* C13: when the tokenizer fails on a broken line and a state at the top level
\* follows the broken section, the tree parse() returns has a StateNode, with
\* its calls, for what comes after the broken section.
C13_StateAfterError ==
    (pc = "done" /\ err.on /\ err.rest) =>
        \E s \in Rng(nodes[1].kids) :
            /\ nodes[s].kind = "State" /\ nodes[s].start # NoPos
            /\ PosLe(err.prob, nodes[s].start)
            /\ nodes[s].kids # <<>>

----------------------------------------------------------------------------
(* The position query                                                      *)

\* The half-open interval [start, end) of node n contains P.
Contains(n, P) ==
    /\ nodes[n].start # NoPos /\ nodes[n].end # NoPos
    /\ PosLe(nodes[n].start, P) /\ PosLt(P, nodes[n].end)

\* The nodes a depth-first walk from the root reaches whose interval contains
\* P, by their rank in the walk.
Matches(P) ==
    LET order == visit(nodes, 1)
    IN  {i \in 1..Len(order) : Contains(order[i], P)}

\* C14: the position query returns the empty path when the interval of no
\* visited node contains P; otherwise a path that ends with the last node, in
\* depth-first pre-order, whose interval contains P, that starts with the root
\* and in which each node is the parent of the next.
C14_PathToPosition ==
    query.calls > 0 =>
        LET r == query.res
            order == visit(nodes, 1)
            m == Matches(query.pos)
        IN  /\ r.raised = ""
            /\ m = {} => r.path = <<>>
            /\ m # {} =>
                  /\ r.path # <<>>
                  /\ Last(r.path) = order[Max(m)]
                  /\ Head(r.path) = 1
                  /\ \A i \in 1..(Len(r.path) - 1) :
                        nodes[r.path[i + 1]].parent = r.path[i]

\* C15 (P6): two calls of the position query with the same position on the
\* same tree return equal paths, and no call changes the tree.
C15_QueryIdempotent ==
    [][pc = "done" =>
        /\ nodes' = nodes
        /\ query'.calls >= 2 =>
              /\ query'.first.raised = "" /\ query'.res.raised = ""
              /\ query'.res.path = query'.first.path]_vars

\* C16: on every tree parse() returns, the trees with a node whose start or
\* end is None included, the position query completes and returns a path.
C16_QueryTolerant == (pc = "done" /\ query.calls > 0) => query.res.raised = ""

----------------------------------------------------------------------------
(* The order of positions                                                  *)

\* C17: the comparison of positions is the lexicographic total order on
\* (line, col): exactly one of a < b, a == b, a > b holds, a <= b iff a < b or
\* a == b, a >= b iff not a < b, and < is transitive.
C17_PositionTotalOrder ==
    cmp.done =>
        LET r == cmp.res
        IN  /\ r.lt <=> (cmp.a.line < cmp.b.line
                         \/ (cmp.a.line = cmp.b.line /\ cmp.a.col < cmp.b.col))
            /\ (r.lt /\ ~r.eq /\ ~r.gt) \/ (~r.lt /\ r.eq /\ ~r.gt) \/ (~r.lt /\ ~r.eq /\ r.gt)
            /\ r.le <=> (r.lt \/ r.eq)
            /\ r.ge <=> ~r.lt
            /\ (r.lt /\ r.lt_bc) => r.lt_ac

\* Three positions compared, a on an earlier line and at a later column than
\* b, and b before c.
C17_Witness ==
    /\ cmp.done
    /\ cmp.a.line < cmp.b.line /\ cmp.a.col > cmp.b.col
    /\ cmp.res.lt /\ cmp.res.lt_bc /\ cmp.res.lt_ac /\ cmp.res.le /\ ~cmp.res.ge

----------------------------------------------------------------------------
(* The file of an include                                                  *)

\* The directory get_file looks in: the top when it is a directory, the
\* directory that holds it otherwise.
TopDir == IF gf.isdir THEN abspath(gf.top) ELSE dirname(abspath(gf.top))

\* The dotted value as a path: its parts, joined.
DottedPath == join(Head(split(gf.value)), Tail(split(gf.value)))

\* C18: get_file returns None when the value is None; otherwise it returns
\* dir/p/init.sls if that file exists, else dir/p.sls if that file exists,
\* else None, dir being the top or the directory that holds it and p the
\* dotted value as a path; init.sls wins when both exist.
C18_GetFile ==
    gf.done =>
        LET init == join(TopDir, <<DottedPath, <<"init.sls">>>>)
            entry == join2(TopDir, DottedPath \o <<".sls">>)
        IN  IF gf.value = <<>> THEN gf.res = <<>>
            ELSE IF init \in gf.fs THEN gf.res = init
            ELSE IF entry \in gf.fs THEN gf.res = entry
            ELSE gf.res = <<>>

\* The include a.a under a top that is a file: both candidates exist and the
\* init.sls of the directory that holds the top is returned.
C18_Witness ==
    /\ gf.done /\ gf.value = <<"a", ".", "a">> /\ gf.top = <<"/", "t", "/", "f">> /\ ~gf.isdir
    /\ Cardinality(gf.fs) = 2
    /\ gf.res = <<"/", "t", "/", "a", "/", "a", "/", "init.sls">>
    /\ <<"/", "t", "/", "a", "/", "a", ".sls">> \in gf.fs

----------------------------------------------------------------------------
(* The two stacks at an end token                                          *)

\* C19: an end token received while both stacks are non-empty pops one entry
\* (t, n) of block_starts and pops the breadcrumbs down to and including n,
\* which is on the breadcrumbs; every AST node popped gets the token's end as
\* its end, and every node beneath n stays on the stack with its end unchanged.
C19_EndPopsToOwner ==
    [][(EndTokenStep /\ block_starts # <<>> /\ breadcrumbs # <<>>) =>
        LET n == Last(block_starts).node
            tok == Head(pending)
        IN  /\ block_starts' = Front(block_starts)
            /\ \E k \in 1..Len(breadcrumbs) :
                  /\ breadcrumbs[k] = n
                  /\ \A j \in (k + 1)..Len(breadcrumbs) : breadcrumbs[j] # n
                  /\ breadcrumbs' = SubSeq(breadcrumbs, 1, k - 1)
                  /\ \A j \in k..Len(breadcrumbs) :
                        nodes[breadcrumbs[j]].kind # "Token" =>
                            nodes'[breadcrumbs[j]].end = tok.end
                  /\ \A j \in 1..(k - 1) :
                        nodes'[breadcrumbs[j]].end = nodes[breadcrumbs[j]].end]_vars

\* C20: an end token received when block_starts or the breadcrumbs are empty
\* changes neither stack nor any node, and the tokens that follow are
\* processed.
C20_EndOnEmptyStackNoOp ==
    [][(EndTokenStep /\ (block_starts = <<>> \/ breadcrumbs = <<>>)) =>
        /\ breadcrumbs' = breadcrumbs
        /\ block_starts' = block_starts
        /\ \A i \in 1..Len(nodes) : nodes'[i] = nodes[i]
        /\ pc' = "scan" /\ exc' = ""]_vars

\* The document "include:" followed by "- v" at column 0: the scalar has
\* emptied the breadcrumbs, the BlockEnd of the end of the stream has been
\* processed and the entry of the one block start is still there.
C20_Witness ==
    /\ pc = "scan" /\ eof /\ Len(pending) = 1 /\ Head(pending).type = "StreamEnd"
    /\ Len(doc) = 2 /\ doc[1].key = "include" /\ doc[2].shape = "EV" /\ doc[2].col = 0
    /\ breadcrumbs = <<>>
    /\ block_starts = <<[type |-> "BlockMappingStart", node |-> 1]>>

----------------------------------------------------------------------------
(* The reclassification of a provisional node                              *)

\* The next step hands _process_token a scalar that is taken as a key, no
\* verbatim buffer being active.
KeyScalarStep ==
    /\ pc = "scan" /\ pending # <<>> /\ Head(pending).type = "Scalar"
    /\ next_scalar_as_key /\ ~unprocessed_tokens.on /\ breadcrumbs # <<>>

\* That key makes set_key convert the innermost node: a parameter of a call
\* keyed by a requisite keyword, a state of the tree keyed include or extend.
Reclassifies ==
    /\ KeyScalarStep
    /\ LET old == nodes[Last(breadcrumbs)]
           key == Head(pending).value
       IN  /\ old.parent # 0
           /\ \/ /\ old.kind = "StateParameter" /\ key \in all_requisites_keys
                 /\ nodes[old.parent].kind = "StateCall"
              \/ /\ old.kind = "State" /\ key \in {"include", "extend"}
                 /\ nodes[old.parent].kind = "Tree"

\* C21: after a key scalar reclassifies the innermost node, the discarded
\* node is neither on the breadcrumbs nor in an entry of block_starts: the
\* replacement stands at its place on the stack and in every entry that
\* referenced it, and the entries of the other nodes are unchanged.
C21_NoDanglingReference ==
    [][Reclassifies =>
        LET old == Last(breadcrumbs)
            new == Len(nodes) + 1
        IN  /\ Len(nodes') = new
            /\ nodes'[new].kind \in {"Requisites", "Includes", "Extend"}
            /\ breadcrumbs' = Append(Front(breadcrumbs), new)
            /\ old \notin Rng(breadcrumbs')
            /\ Len(block_starts') = Len(block_starts)
            /\ \A i \in 1..Len(block_starts) :
                  /\ block_starts'[i].node # old
                  /\ block_starts'[i].type = block_starts[i].type
                  /\ block_starts[i].node = old => block_starts'[i].node = new
                  /\ block_starts[i].node # old => block_starts'[i] = block_starts[i]]_vars

\* A parameter has just become a RequisitesNode: the replacement is the
\* innermost breadcrumb and the block start of the item's mapping refers to it.
C21_Witness ==
    /\ pc = "scan" /\ breadcrumbs # <<>> /\ block_starts # <<>>
    /\ ~next_scalar_as_key
    /\ LET n == Last(breadcrumbs)
       IN  /\ nodes[n].kind = "Requisites" /\ nodes[n].kids = <<>>
           /\ n = Len(nodes)
           /\ Last(block_starts) = [type |-> "BlockMappingStart", node |-> n]
           /\ pending # <<>> /\ Head(pending).type = "Value"

\* The next step calls set_key of a StateParameterNode with the scalar.
ParameterKeyStep == KeyScalarStep /\ nodes[Last(breadcrumbs)].kind = "StateParameter"

\* The sequence s without the node n.
Without(s, n) == SelectSeq(s, LAMBDA x : x # n)

\* C22: StateParameterNode.set_key(k), k a requisite keyword and the parent a
\* StateCallNode: that parameter alone leaves parent.parameters, the other
\* parameters and the requisites keep their order, and one RequisitesNode of
\* kind k, with the parameter's start and the call as parent, is appended to
\* parent.requisites and returned.  For any other key only the name is set
\* and the same node is returned.
C22_SetKeyOfParameter ==
    [][ParameterKeyStep =>
        LET old == Last(breadcrumbs)
            k == Head(pending).value
            c == nodes[old].parent
            new == Len(nodes) + 1
        IN  IF k \in RequisiteWords /\ c # 0 /\ nodes[c].kind = "StateCall"
            THEN /\ Len(nodes') = new
                 /\ old \in Rng(nodes[c].kids)
                 /\ nodes'[c] = [nodes[c] EXCEPT !.kids = Without(nodes[c].kids, old),
                                                 !.reqs = Append(nodes[c].reqs, new)]
                 /\ Len(nodes'[c].kids) = Len(nodes[c].kids) - 1
                 /\ nodes'[new] = [NewNode("Requisites", c) EXCEPT
                                      !.name = k, !.start = nodes[old].start]
                 /\ \A i \in 1..Len(nodes) : i # c => nodes'[i] = nodes[i]
                 /\ Last(breadcrumbs') = new
            ELSE /\ nodes' = [nodes EXCEPT ![old].name = k]
                 /\ breadcrumbs' = breadcrumbs]_vars

\* A call that has a parameter gets a requisites list: the parameter is where
\* it was and is the only one, the provisional parameter is gone, and the new
\* list, the one requisites list of the call, is the innermost breadcrumb.
C22_Witness ==
    /\ pc = "scan" /\ breadcrumbs # <<>>
    /\ LET n == Last(breadcrumbs)
           c == nodes[n].parent
       IN  /\ nodes[n].kind = "Requisites" /\ n = Len(nodes) /\ nodes[n].kids = <<>>
           /\ nodes[n].name \in RequisiteWords
           /\ c # 0 /\ nodes[c].kind = "StateCall"
           /\ Len(nodes[c].kids) = 1 /\ nodes[nodes[c].kids[1]].name = "n"
           /\ nodes[nodes[c].kids[1]].start # nodes[n].start
           /\ nodes[c].reqs = <<n>>

----------------------------------------------------------------------------
(* The verbatim collection of the value of a parameter                      *)

\* The next step hands a token to _process_token.
TokenStep == pc = "scan" /\ pending # <<>>

\* The innermost open node is a StateParameterNode.
InParameter ==
    breadcrumbs # <<>> /\ nodes[Last(breadcrumbs)].kind = "StateParameter"

\* The token of the next step is a value separator that starts the buffer.
StartsBuffer ==
    /\ TokenStep /\ Head(pending).type = "Value" /\ InParameter
    /\ (~unprocessed_tokens.on \/ unprocessed_tokens.toks = <<>>)

\* The token of the next step is the block end that ends the collection.
EndsCollection ==
    TokenStep /\ unprocessed_tokens.on /\ Head(pending).type = "BlockEnd" /\ InParameter

\* The token nodes of the sequence s, as the tokens they wrap.
Wrapped(h, s) ==
    [i \in 1..Len(s) |-> [type |-> h[s[i]].name, value |-> h[s[i]].value,
                          start |-> h[s[i]].start, end |-> h[s[i]].end]]

\* C23: a value separator received while the innermost open node is a
\* StateParameterNode and no buffer is active starts the buffer, without
\* being put into it; every token received while the buffer is active is
\* appended to it, in arrival order, but the block end received when the
\* parameter is innermost again, which closes the parameter; a buffered start
\* token is pushed as a token node on the breadcrumbs and on block_starts, and
\* that node leaves the breadcrumbs at the end token received while it is
\* innermost, together with its entry of block_starts.
C23_VerbatimCollection ==
    [][TokenStep =>
        LET tok == Head(pending)
            B == unprocessed_tokens.toks
            new == Len(nodes) + 1
        IN  /\ (StartsBuffer /\ ~unprocessed_tokens.on) =>
                  unprocessed_tokens' = [on |-> TRUE, toks |-> <<>>]
            /\ (unprocessed_tokens.on /\ ~StartsBuffer /\ ~EndsCollection) =>
                  /\ unprocessed_tokens'.on
                  /\ unprocessed_tokens'.toks = Append(B, new)
                  /\ Len(nodes') = new
                  /\ Wrapped(nodes', unprocessed_tokens'.toks)
                        = Append(Wrapped(nodes, B), tok)
                  /\ tok.type \in StartTypes =>
                        /\ breadcrumbs' = Append(breadcrumbs, new)
                        /\ block_starts' # <<>>
                        /\ Last(block_starts') = [type |-> tok.type, node |-> new]
            /\ EndsCollection =>
                  /\ Last(breadcrumbs) \notin Rng(breadcrumbs')
                  /\ unprocessed_tokens'.on => unprocessed_tokens'.toks = B
                  /\ ~unprocessed_tokens'.on =>
                        \/ nodes'[Last(breadcrumbs)].vlist = B
                        \/ /\ Len(B) = 1 /\ nodes[B[1]].name = "Scalar"
                           /\ nodes'[Last(breadcrumbs)].value = nodes[B[1]].value
            /\ \A t \in Rng(breadcrumbs) :
                  (nodes[t].kind = "Token" /\ t \notin Rng(breadcrumbs')) =>
                      /\ tok.type \in EndTypes
                      /\ t = Last(breadcrumbs)
                      /\ breadcrumbs' = Front(breadcrumbs)
                      /\ block_starts # <<>> /\ Last(block_starts).node = t
                      /\ block_starts' = Front(block_starts)]_vars

\* The value "[]" of a parameter is collected: the buffer holds the flow
\* start and the flow end, in that order, and the token node of the flow
\* start, pushed on both stacks, has left them at the flow end; the parameter
\* is innermost again and still open.
C23_Witness ==
    /\ pc = "scan" /\ unprocessed_tokens.on /\ InParameter
    /\ LET B == unprocessed_tokens.toks
       IN  /\ Len(B) = 2
           /\ nodes[B[1]].name = "FlowSequenceStart" /\ nodes[B[2]].name = "FlowSequenceEnd"
           /\ PosLt(nodes[B[1]].start, nodes[B[2]].start)
           /\ B[1] \notin Rng(breadcrumbs)
           /\ \A i \in 1..Len(block_starts) : block_starts[i].node # B[1]
    /\ nodes[Last(breadcrumbs)].vkind = "none"

\* The kinds of the nodes of the tree proper, the token wrappers left out.
AstKinds == {"Tree", "Extend", "State", "StateCall", "StateParameter", "Requisites",
             "Requisite", "Includes", "Include"}

\* The step creates no node but token wrappers and changes, on the nodes that
\* exist, nothing but their end.
OnlyBuffers ==
    /\ Len(nodes') >= Len(nodes)
    /\ \A i \in (Len(nodes) + 1)..Len(nodes') : nodes'[i].kind = "Token"
    /\ \A i \in 1..Len(nodes) : [nodes'[i] EXCEPT !.end = nodes[i].end] = nodes[i]

\* C24, as stated: a token after whose start, value and end handling the
\* verbatim buffer is active creates no node of the tree and sets no key, name,
\* value or reference; next_scalar_as_key is unchanged and next_token_is_value
\* is false afterwards.
C24_BufferedTokenInert ==
    [][(TokenStep /\ unprocessed_tokens'.on) =>
        /\ OnlyBuffers
        /\ next_scalar_as_key' = next_scalar_as_key
        /\ next_token_is_value' = FALSE]_vars

\* C24, amended: the same for every token but the value separator that starts
\* the buffer; that one is consumed at once, changes no node and neither
\* stack, and leaves next_token_is_value true.
C24_BufferedTokenInert_Amended ==
    [][(TokenStep /\ unprocessed_tokens'.on) =>
        /\ OnlyBuffers
        /\ next_scalar_as_key' = next_scalar_as_key
        /\ IF StartsBuffer
           THEN /\ next_token_is_value' = TRUE
                /\ nodes' = nodes
                /\ breadcrumbs' = breadcrumbs /\ block_starts' = block_starts
           ELSE next_token_is_value' = FALSE]_vars

\* A key and its scalar have been buffered, after other tokens: the scalar is
\* the last token of the buffer, no node has it as name, and both flags are
\* false.
C24_Witness ==
    /\ pc = "scan" /\ unprocessed_tokens.on
    /\ ~next_scalar_as_key /\ ~next_token_is_value
    /\ LET B == unprocessed_tokens.toks
       IN  /\ Len(B) >= 3
           /\ nodes[B[Len(B) - 1]].name = "Key" /\ nodes[B[Len(B)]].name = "Scalar"
           /\ nodes[B[Len(B)]].value = "f"
           /\ \A i \in 1..Len(nodes) :
                 nodes[i].kind \in AstKinds /\ nodes[i].name = "f" =>
                     PosLt(nodes[i].start, nodes[B[1]].start)

----------------------------------------------------------------------------
(* The nodes open when the tokenizer fails                                 *)

\* parse() has returned after a ScannerError that has a context_mark.
Recovered == pc = "done" /\ err.on /\ err.ctxOn

\* The nodes that were open when the error was caught and start at a column
\* greater than that of context_mark.
DeeperThanContext ==
    {n \in Rng(err.open) :
        nodes[n].start # NoPos /\ nodes[n].start.col > err.ctx.col}

\* C25: after a scan error, every node of the tree that was open when the
\* error was caught and starts at a column strictly greater than that of
\* context_mark has left the breadcrumbs and ends at context_mark.
C25_DeeperNodesForceClosed ==
    Recovered =>
        \A n \in DeeperThanContext :
            nodes[n].kind # "Token" =>
                n \notin Rng(breadcrumbs) /\ nodes[n].end = err.ctx

\* The next step is a turn of the recovery loop.
RecoveryTurn == pc = "recover" /\ ridx >= 1 /\ ridx <= Len(breadcrumbs)

\* Node n starts at a column smaller than that of context_mark.
LeftOfContext(n) ==
    nodes[n].start # NoPos /\ err.ctxOn /\ nodes[n].start.col < err.ctx.col

\* The turn is for a node that starts left of context_mark.
AncestorTurn == RecoveryTurn /\ LeftOfContext(breadcrumbs[ridx])

\* The walk has already met a node that starts left of context_mark.
PastFirstAncestor ==
    \E j \in (ridx + 1)..Len(breadcrumbs) : LeftOfContext(breadcrumbs[j])

\* The turn sets the end of node n to problem_mark and does nothing else: no
\* token is processed.
OnlyStampsEnd(n) ==
    /\ nodes' = [nodes EXCEPT ![n].end = err.prob]
    /\ breadcrumbs' = breadcrumbs /\ block_starts' = block_starts
    /\ unprocessed_tokens' = unprocessed_tokens
    /\ next_scalar_as_key' = next_scalar_as_key
    /\ next_token_is_value' = next_token_is_value

\* C26, as stated: the turn of the recovery walk for the first open node that
\* starts left of context_mark sets its end to problem_mark without a
\* synthesized token, and the walk stops there: recovery modifies no node
\* further out on the breadcrumbs.
C26_WalkStopsAtAncestor ==
    [][/\ (AncestorTurn /\ ~PastFirstAncestor) => OnlyStampsEnd(breadcrumbs[ridx])
       /\ (RecoveryTurn /\ PastFirstAncestor) => nodes' = nodes]_vars

\* C26, amended: every turn of the walk for a node that starts left of
\* context_mark sets its end to problem_mark without a synthesized token, and
\* the walk goes on with the node further out, down to the root.
C26_WalkStampsAncestors ==
    [][AncestorTurn =>
        /\ OnlyStampsEnd(breadcrumbs[ridx])
        /\ pc' = "recover" /\ ridx' = ridx - 1
        /\ ridx > 1 => ridx' >= 1 /\ ridx' <= Len(breadcrumbs')]_vars

\* parse() has returned after an error right of the state and of the root:
\* both are still on the breadcrumbs and both end at problem_mark, the state
\* having been stamped first.
C26_Witness ==
    /\ pc = "done" /\ err.on /\ err.ctxOn /\ err.ctx.col = 2
    /\ Len(breadcrumbs) = 2 /\ breadcrumbs[1] = 1
    /\ nodes[breadcrumbs[2]].kind = "State" /\ nodes[breadcrumbs[2]].start.col = 0
    /\ nodes[breadcrumbs[2]].end = err.prob
    /\ nodes[1].end = err.prob
    /\ err.prob # err.ctx

----------------------------------------------------------------------------
(* The list that stands at the column of its key                           *)

\* The next step hands _process_token a block entry that its rule handles, no
\* verbatim buffer being active.
BlockEntryStep ==
    /\ TokenStep /\ Head(pending).type = "BlockEntry" /\ ~unprocessed_tokens.on
    /\ breadcrumbs # <<>>

\* That block entry stands, col_adjustment added, at the start column of the
\* innermost open node.
SameLevelEntry ==
    /\ BlockEntryStep
    /\ nodes[Last(breadcrumbs)].start # NoPos
    /\ nodes[Last(breadcrumbs)].start.col = Head(pending).start.col + col_adjustment

\* The innermost open node is then a StateCallNode: the indentation is
\* tolerated.
ToleranceStep == SameLevelEntry /\ nodes[Last(breadcrumbs)].kind = "StateCall"

\* C27: a block entry at the start column of the innermost open node, a
\* StateCallNode, leaves the call on the breadcrumbs with its end unchanged,
\* pushes one mapping start registered against the call on block_starts, sets
\* col_adjustment to the call's column and adds the item as a parameter of the
\* call; it is the first item of its list, the later block entries of the
\* list pushing no such entry again.
C27_IndentationTolerance ==
    [][ToleranceStep =>
        LET c == Last(breadcrumbs)
            tok == Head(pending)
            new == Len(nodes) + 1
        IN  /\ breadcrumbs' = Append(breadcrumbs, new)
            /\ nodes'[c].end = nodes[c].end
            /\ block_starts' = Append(block_starts, [type |-> "BlockMappingStart", node |-> c])
            /\ col_adjustment' = nodes[c].start.col
            /\ Len(nodes') = new
            /\ nodes'[new] = [NewNode("StateParameter", c) EXCEPT !.start = tok.start]
            /\ nodes'[c].kids = Append(nodes[c].kids, new)
            /\ \A k \in Rng(nodes[c].kids) \cup Rng(nodes[c].reqs) :
                  nodes[k].start.col # tok.start.col]_vars

\* The innermost open node is no StateCallNode: the block entry is a dedent.
DedentStep == SameLevelEntry /\ nodes[Last(breadcrumbs)].kind # "StateCall"

\* C28: a block entry at the start column of the innermost open node, which
\* is no StateCallNode, pops that one node, which ends where the block entry
\* starts, leaves block_starts unchanged, and adds the new item, which starts
\* at the block entry, to the node that is innermost after the pop.
C28_SameColumnDedent ==
    [][DedentStep =>
        LET n == Last(breadcrumbs)
            tok == Head(pending)
            new == Len(nodes) + 1
        IN  /\ nodes'[n].end = tok.start
            /\ block_starts' = block_starts
            /\ Len(breadcrumbs) >= 2
            /\ LET m == breadcrumbs[Len(breadcrumbs) - 1]
               IN  /\ Len(nodes') = new
                   /\ nodes'[new].kind \in {"StateParameter", "Include", "Requisite"}
                   /\ nodes'[new].start = tok.start
                   /\ nodes'[m].kids = Append(nodes[m].kids, new)
                   /\ breadcrumbs' = Append(Front(breadcrumbs), new)]_vars


\* ---------------------------------------------------------------------------
\* C29
\* ---------------------------------------------------------------------------

\* The state calls on the breadcrumbs whose column is the current adjustment:
\* the call that triggered the tolerance is one of them while it is open.
TriggeringCalls ==
    {i \in 1..Len(breadcrumbs) :
        /\ nodes[breadcrumbs[i]].kind = "StateCall"
        /\ nodes[breadcrumbs[i]].start # NoPos
        /\ nodes[breadcrumbs[i]].start.col = col_adjustment}

\* The state calls on the breadcrumbs, by position.
OpenCalls ==
    {i \in 1..Len(breadcrumbs) : nodes[breadcrumbs[i]].kind = "StateCall"}

ToleratedItems ==
    {j \in 2..Len(doc) :
        /\ doc[j].shape \in EntryShapes
        /\ doc[j - 1].shape = "K"
        /\ doc[j - 1].col > 0
        /\ doc[j].col = doc[j - 1].col}

\* The lines that are top-level keys.
TopKeys == {i \in 1..Len(doc) : doc[i].col = 0 /\ doc[i].shape \in {"K", "KV"}}

\* A tolerated list is followed by another top-level key.
ToleratedThenState ==
    \E j \in ToleratedItems : \E i \in TopKeys : i > j

\* C30: when a state call lists its items at the column of its own key and
\* another top-level state follows, every top-level key yields its own
\* StateNode among the children of the tree, no top-level key becomes a
\* state call of the state before it, and the end tokens close every state.
C30_ToleratedListThenState ==
    (pc = "done" /\ ~err.on /\ ToleratedThenState) =>
        /\ \A i \in TopKeys :
              \E s \in Rng(nodes[1].kids) :
                  nodes[s].kind \in {"State", "Includes", "Extend"}
                  /\ nodes[s].start = Pos(i - 1, 0)
        /\ \A c \in 1..Len(nodes) :
              nodes[c].kind = "StateCall" => nodes[c].start.col > 0
        /\ \A s \in Rng(nodes[1].kids) : nodes[s].end # NoPos

\* ---------------------------------------------------------------------------
\* C31
\* ---------------------------------------------------------------------------

\* The nodes whose end is set.
Closed == {n \in 1..Len(nodes) : nodes[n].end # NoPos}

\* C31: the end of a node is assigned at most once during a parse; once it is
\* set, no later token and no recovery step gives the node another end.
C31_EndSetOnce ==
    [][\A n \in Closed : nodes'[n].end = nodes[n].end]_vars

\* ---------------------------------------------------------------------------
\* C32
\* ---------------------------------------------------------------------------

\* C32: when _process_token returns for a token other than a value separator,
\* next_token_is_value is false.
C32_ValueFlagCleared ==
    [][(TokenStep /\ Head(pending).type # "Value" /\ pc' # "raised")
          => next_token_is_value' = FALSE]_vars

\* ---------------------------------------------------------------------------
\* C33
\* ---------------------------------------------------------------------------

\* Node n is in one of the lists or fields by which node m owns its children.
OwnedBy(n, m) ==
    \/ n \in Rng(nodes[m].kids)
    \/ n \in Rng(nodes[m].reqs)
    \/ nodes[m].includes = n
    \/ nodes[m].extend = n

\* C33: after every token the breadcrumbs are a path of the tree from the
\* root down: the bottom entry is the Tree, and every other entry that is no
\* wrapper of a raw token is a child of the entry directly beneath it.
C33_BreadcrumbsAreAPath ==
    breadcrumbs # <<>> =>
        /\ breadcrumbs[1] = 1
        /\ \A i \in 2..Len(breadcrumbs) :
              nodes[breadcrumbs[i]].kind # "Token"
                  => OwnedBy(breadcrumbs[i], breadcrumbs[i - 1])

\* ---------------------------------------------------------------------------
\* C34
\* ---------------------------------------------------------------------------

\* The positions on the breadcrumbs of the node of the j-th block_starts entry.
CrumbsOf(j) == {i \in 1..Len(breadcrumbs) : breadcrumbs[i] = block_starts[j].node}

\* C34: after every token each node that a block_starts entry refers to is on
\* the breadcrumbs, and the entries follow, bottom to top, the order of their
\* nodes on the breadcrumbs.
C34_BlockStartsOnBreadcrumbs ==
    /\ \A j \in 1..Len(block_starts) : CrumbsOf(j) # {}
    /\ \A j, k \in 1..Len(block_starts) :
          j < k => \E a \in CrumbsOf(j) : \E b \in CrumbsOf(k) : a <= b

\* ---------------------------------------------------------------------------
\* C35
\* ---------------------------------------------------------------------------

\* The parameters on the breadcrumbs, by position.
OpenParameters ==
    {i \in 1..Len(breadcrumbs) : nodes[breadcrumbs[i]].kind = "StateParameter"}

\* C35: whenever the verbatim buffer is active, the StateParameterNode that
\* started it is on the breadcrumbs: the buffer is cleared no later than the
\* step in which that parameter leaves them.
C35_BufferOnlyWhileParameterOpen ==
    unprocessed_tokens.on => OpenParameters # {}

\* ---------------------------------------------------------------------------
\* C36
\* ---------------------------------------------------------------------------

\* C36: in every tree parse() returns, the parent of each node that another
\* node owns is that owner: the Tree for states, includes and extend, the
\* IncludesNode for an IncludeNode, the StateNode for a call, the StateCallNode
\* for parameters and requisites groups, the RequisitesNode for a requisite.
C36_ParentIsOwner ==
    pc = "done" =>
        \A m, n \in 1..Len(nodes) :
            (OwnedBy(n, m) /\ nodes[n].kind # "Token") => nodes[n].parent = m

\* ---------------------------------------------------------------------------
\* C37
\* ---------------------------------------------------------------------------

\* The nodes of S and the AST nodes they own, directly or transitively.
RECURSIVE OwnedFrom(_)
OwnedFrom(S) ==
    LET T == S \cup {n \in 1..Len(nodes) :
                        nodes[n].kind # "Token" /\ \E m \in S : OwnedBy(n, m)}
    IN  IF T = S THEN S ELSE OwnedFrom(T)

\* The nodes in the order Tree.visit applies a visitor that returns True.
VisitOrder == visit(nodes, 1)

\* C37: Tree.visit with a visitor that always returns True calls the visitor
\* exactly once on every AST node the root owns, directly or transitively,
\* the entries of the includes group among them, each parent before its
\* children.
C37_VisitReachesEveryNode ==
    pc = "done" =>
        /\ \A n \in OwnedFrom({1}) :
              Cardinality({i \in 1..Len(VisitOrder) : VisitOrder[i] = n}) = 1
        /\ \A i, j \in 1..Len(VisitOrder) :
              OwnedBy(VisitOrder[j], VisitOrder[i]) => i < j

\* ---------------------------------------------------------------------------
\* C38
\* ---------------------------------------------------------------------------

\* The positions of the breadcrumbs, as they were when the scan error was
\* caught, that the recovery loop has taken so far.
WalkTaken == {i \in 1..Len(err.open) : i > ridx}

\* The recovery loop has taken at most one turn per node that was on the
\* breadcrumbs when the error was caught.
WalkBounded == pc \in {"recover", "done"} => (ridx >= 0 /\ ridx <= Len(err.open))

\* When parse() returns after a scan error, every node that was on the
\* breadcrumbs at the error was taken by the loop or has its end set.
WalkCoversOpenNodes ==
    (pc = "done" /\ err.on) =>
        \A i \in 1..Len(err.open) :
            i \in WalkTaken \/ nodes[err.open[i]].end # NoPos

HasId(u) ==
    /\ find.trees[u].present
    /\ \E i \in 1..Len(find.trees[u].states) :
          /\ find.trees[u].states[i].identifier = find.id
          /\ ast_node_to_range(find.trees[u].states[i]).some

\* The uris searched, in the order of the search: the starting document, then
\* its includes that have a tree.
Searched ==
    IF find.trees[StartingUri].present
    THEN <<StartingUri>> \o SelectSeq(find.includes, LAMBDA u : find.trees[u].present)
    ELSE <<>>

\* C39: find_id_in_doc_and_includes searches the starting document first and
\* then its includes in list order, and returns the first match: the location
\* is in the starting document whenever that document has the state, an
\* include is returned only when the starting document has no such state, and
\* None is returned only when no tree searched has it.
C39_FirstMatchInSearchOrder ==
    find.done =>
        /\ HasId(StartingUri) => (find.res.found /\ find.res.uri = StartingUri)
        /\ (find.res.found /\ find.res.uri # StartingUri) => ~HasId(StartingUri)
        /\ ~find.res.found => \A i \in 1..Len(Searched) : ~HasId(Searched[i])
        /\ find.res.found =>
              \E i \in 1..Len(Searched) :
                  /\ Searched[i] = find.res.uri
                  /\ HasId(Searched[i])
                  /\ \A j \in 1..(i - 1) : ~HasId(Searched[j])

====
